---------------------------- MODULE Spec2Model ----------------------------
(***************************************************************************)
(* A model of ReaderStudio's identity-resolution and merge-write core.     *)
(*                                                                         *)
(* Text is modelled as TLA+ strings (sequences of characters): file        *)
(* contents, file names, titles and annotation excerpts are the strings    *)
(* the Python code handles, and the string operators below compute what    *)
(* the corresponding Python calls (str.find, re.sub, re.findall,           *)
(* pathlib.Path.stem, difflib.SequenceMatcher) compute.  Positions are     *)
(* 1-based; 0 stands for Python's "not found" (-1 / None).                 *)
(*                                                                         *)
(* The specifications of the module, one per component:                    *)
(*   SpecMatch   the entity matcher (find_matching_markdown)               *)
(*   SpecMerge   the landing-page writers (create_markdown,                *)
(*               create_landing_page)                                      *)
(*   SpecBucket  bucket intake (FileProcessor.process_bucket)              *)
(*   SpecSync    annotation sync of one book (_sync_book_annotations)      *)
(*   SpecCall    single calls of the helper functions, on their own        *)
(*   SpecRun     whole runs (BookProcessor.process_books)                  *)
(*   SpecVault   whole runs and syncs (process_books, sync_annotations)    *)
(*   SpecLinks   match-only runs (match_landing_pages_with_markdown)       *)
(***************************************************************************)
EXTENDS Integers, Sequences, FiniteSets, TLC

VARIABLES
    \* --- entity matcher ---
    mQuery,      \* <<title or file name, author>> handed to find_matching_markdown
    mPool,       \* MARKDOWN_DIR listing, in glob order: <<[name, isDir, files]>>
    mResult,     \* result of MarkdownProcessor.find_matching_markdown
    bResult,     \* result of BookProcessor.find_matching_markdown
    \* --- landing pages ---
    meta,        \* the metadata extracted for the book (the generated input)
    hasAnnotationDir, \* whether the configuration has an ANNOTATION_DIR attribute
    books,       \* the landing pages in BOOKS_DIR / LANDING_DIR: file name -> text
    annots,      \* the annotation documents: file name -> text
    annotated,   \* the names of the files in BOOKS_DIR/Annotated
    prevBooks,   \* history: books before the last step
    last,        \* history: the last step [op, ok, n, runs, edits]; n counts the
                 \* successive successful runs of the same writer, runs and
                 \* edits the writer calls and user edits so far
    \* --- annotation sync ---
    mdFile,      \* the book's markdown file: [exists, text]
    syncLanding, \* the book's landing page: [exists, text]
    idCount,     \* the number of block ids generated so far
    syncs,       \* the number of syncs run so far
    \* --- bucket intake ---
    disk,        \* the vault's directories: <<directory, file name>> -> [isDir, bytes]
    file_hashes, \* FileProcessor.file_hashes: path -> hash
    bucketRun,   \* history: [runs, before, results] of the last process_bucket:
                 \* the runs so far, the disk when it started, what it did
    \* --- single calls of the helper functions ---
    call,        \* the call: [fn, args]
    ret,         \* what the call returned, NotCalled before it is made
    \* --- whole runs ---
    hasBooksDir, \* whether the configuration has a BOOKS_DIR attribute
    world,       \* what the run finds outside the vault: [convert], what the
                 \* converter does
    pbRun,       \* history: [runs, indexWritten, entries, landingBefore,
                 \* annotsBefore, originalsBefore] of the last process_books
    syncRun,     \* history: [runs, raised, handled, titles] of the last
                 \* sync_annotations
    markdowns,   \* the text of the files of MARKDOWN_DIR: <<directory, file>> -> text
    \* --- match-only runs ---
    matchRun     \* history: [runs, raised, before, written, kept, linked] of the
                 \* last match_landing_pages_with_markdown: the runs so far,
                 \* the landing pages when it started, the pages it wrote and
                 \* the pages it found linked, and the pages written by any run

varsMatch == <<mQuery, mPool, mResult, bResult>>
varsMerge == <<meta, hasAnnotationDir, books, annots, annotated, prevBooks, last>>

varsSync == <<mdFile, syncLanding, idCount, syncs>>

varsBucket == <<disk, file_hashes, bucketRun>>

varsCall == <<call, ret>>

varsRun == <<hasBooksDir, world, pbRun, syncRun, markdowns>>

varsLinks == <<matchRun>>

vars == <<varsMatch, varsMerge, varsSync, varsBucket, varsCall, varsRun, varsLinks>>

\* What a component's actions leave alone.
othersOfMatch == <<varsMerge, varsSync, varsBucket, varsCall, varsRun, varsLinks>>
othersOfMerge == <<varsMatch, varsSync, varsBucket, varsCall, varsRun, varsLinks>>
othersOfSync == <<varsMatch, varsMerge, varsBucket, varsCall, varsRun, varsLinks>>
othersOfBucket == <<varsMatch, varsMerge, varsSync, varsCall, varsRun, varsLinks>>
othersOfCall == <<varsMatch, varsMerge, varsSync, varsBucket, varsRun, varsLinks>>

-----------------------------------------------------------------------------
(* Strings                                                                 *)
(*                                                                         *)
(* An operator that uses an argument several times first binds it to a     *)
(* bound variable ranging over a one-element set ({F(v) : v \in {e}}), so  *)
(* that the argument is evaluated once; Only picks the single result.      *)

Only(S) == CHOOSE x \in S : TRUE

UpperChars == "ABCDEFGHIJKLMNOPQRSTUVWXYZ"
LowerChars == "abcdefghijklmnopqrstuvwxyz"
DigitChars == "0123456789"

CharAt(s, i) == SubSeq(s, i, i)

Max(x, y) == IF x >= y THEN x ELSE y
Min(x, y) == IF x <= y THEN x ELSE y

\* The least and the greatest element of a non-empty set of integers.
MinOf(S) == CHOOSE x \in S : \A y \in S : x <= y
MaxOf(S) == CHOOSE x \in S : \A y \in S : x >= y

\* The positions >= from where sub occurs in s.
Occurrences(s, sub, from) ==
    {i \in from..(Len(s) - Len(sub) + 1) : SubSeq(s, i, i + Len(sub) - 1) = sub}

\* s.find(sub, from): least position >= from where sub occurs, 0 if none.
Find(s, sub, from) ==
    Only({IF c = {} THEN 0 ELSE MinOf(c) : c \in {Occurrences(s, sub, from)}})

\* s.rfind(sub): greatest position where sub occurs, 0 if none.
RFind(s, sub) ==
    Only({IF c = {} THEN 0 ELSE MaxOf(c) : c \in {Occurrences(s, sub, 1)}})

\* sub in s
Contains(s, sub) == Occurrences(s, sub, 1) # {}

CharsOf(s) == {CharAt(s, i) : i \in 1..Len(s)}
UpperSet == CharsOf(UpperChars)
LowerSet == CharsOf(LowerChars)
DigitSet == CharsOf(DigitChars)
WordCharSet == UpperSet \cup LowerSet \cup DigitSet \cup {"_"}
SpaceSet == {" ", "\n", "\t", "\r"}
LowerOf == [c \in UpperSet |-> CharAt(LowerChars, Find(UpperChars, c, 1))]

IsUpper(c) == c \in UpperSet
IsLower(c) == c \in LowerSet
IsDigit(c) == c \in DigitSet
\* regex \w (ASCII part) and \s
IsWordChar(c) == c \in WordCharSet
IsSpace(c) == c \in SpaceSet

LowerChar(c) == IF c \in UpperSet THEN LowerOf[c] ELSE c

\* The concatenation of f[i], ..., f[n], f a function to strings (by
\* halves, which keeps the recursion shallow).
RECURSIVE Concat(_, _, _)
Concat(f, i, n) ==
    IF i > n THEN ""
    ELSE IF i = n THEN f[i]
    ELSE Concat(f, i, (i + n) \div 2) \o Concat(f, ((i + n) \div 2) + 1, n)

\* str.lower()
ToLower(s0) ==
    Only({Concat([i \in 1..Len(s) |-> LowerChar(CharAt(s, i))], 1, Len(s)) : s \in {s0}})

\* ''.join(c for c in s if Keep(c))
Filter(s0, Keep(_)) ==
    Only({Concat([i \in 1..Len(s) |-> IF Keep(CharAt(s, i)) THEN CharAt(s, i) ELSE ""], 1, Len(s))
          : s \in {s0}})

\* The last position of the run of positions of the set in that holds i.
RECURSIVE RunEnd(_, _)
RunEnd(in, i) == IF (i + 1) \in in THEN RunEnd(in, i + 1) ELSE i

\* The maximal runs of characters satisfying P, as <<first, last>> positions.
Runs(s, P(_)) ==
    UNION {{<<i, RunEnd(in, i)>> : i \in {k \in in : (k - 1) \notin in}}
           : in \in {{i \in 1..Len(s) : P(CharAt(s, i))}}}

\* set(re.findall(r'\w+', s))
WordSet(s0) ==
    UNION {{SubSeq(s, r[1], r[2]) : r \in Runs(s, IsWordChar)} : s \in {s0}}

NotSpace(c) == ~IsSpace(c)
\* set(s.split())
SplitSet(s0) ==
    UNION {{SubSeq(s, r[1], r[2]) : r \in Runs(s, NotSpace)} : s \in {s0}}

\* pathlib.PurePath(name).stem for a name without a path separator:
\* the name up to its last dot, unless that dot is the first or the last
\* character.
Stem(name) ==
    IF name = "." THEN ""
    ELSE Only({IF 1 < i /\ i < Len(name) THEN SubSeq(name, 1, i - 1) ELSE name
               : i \in {RFind(name, ".")}})

-----------------------------------------------------------------------------
(* Rational scores.  The Python code computes with floats; the model keeps *)
(* a score as a fraction <<numerator, denominator>> in lowest terms        *)
(* (numerator >= 0, denominator > 0).                                      *)

RECURSIVE GCD(_, _)
GCD(x, y) == IF y = 0 THEN x ELSE GCD(y, x % y)

Frac(n, d) == Only({<<n \div g, d \div g>> : g \in {GCD(n, d)}})

\* The sign of a/b - c/d (-1, 0, 1), by the continued-fraction expansion, so
\* that no product of two denominators is formed.
RECURSIVE FCmp4(_, _, _, _)
FCmp4(a, b, c, d) ==
    IF a \div b # c \div d THEN (IF a \div b > c \div d THEN 1 ELSE -1)
    ELSE IF a % b = 0 /\ c % d = 0 THEN 0
    ELSE IF a % b = 0 THEN -1
    ELSE IF c % d = 0 THEN 1
    ELSE FCmp4(d, c % d, b, a % b)

FCmp(x0, y0) == Only({FCmp4(x[1], x[2], y[1], y[2]) : x \in {x0}, y \in {y0}})
FGt(x, y) == FCmp(x, y) = 1
FGe(x, y) == FCmp(x, y) >= 0
FLt(x, y) == FCmp(x, y) = -1
FEq(x, y) == FCmp(x, y) = 0
FAdd(x0, y0) == Only({Frac(x[1] * y[2] + y[1] * x[2], x[2] * y[2]) : x \in {x0}, y \in {y0}})
FMul(x0, y0) == Only({Frac(x[1] * y[1], x[2] * y[2]) : x \in {x0}, y \in {y0}})
FMax(x0, y0) == Only({IF FGe(x, y) THEN x ELSE y : x \in {x0}, y \in {y0}})
FZero == <<0, 1>>

-----------------------------------------------------------------------------
(* difflib.SequenceMatcher(None, a, b) for strings shorter than 200        *)
(* characters (no junk, and the autojunk heuristic only applies to a       *)
(* second sequence of 200 or more elements).  Ranges are half-open:        *)
(* a[alo..ahi-1], b[blo..bhi-1].                                           *)

\* Length of the common prefix of a[i..ahi-1] and b[j..bhi-1].
RECURSIVE CommonLen(_, _, _, _, _, _)
CommonLen(a, b, i, j, ahi, bhi) ==
    IF i < ahi /\ j < bhi /\ CharAt(a, i) = CharAt(b, j)
    THEN 1 + CommonLen(a, b, i + 1, j + 1, ahi, bhi)
    ELSE 0

\* The common blocks <<i, j, size>> of the ranges that cannot be extended to
\* the left: the characters agree and the pair before does not (or lies
\* outside the ranges).
CommonBlocks(a, b, alo, ahi, blo, bhi) ==
    {<<p[1], p[2], CommonLen(a, b, p[1], p[2], ahi, bhi)>> :
        p \in {q \in (alo..(ahi - 1)) \X (blo..(bhi - 1)) :
                  /\ CharAt(a, q[1]) = CharAt(b, q[2])
                  /\ \/ q[1] = alo
                     \/ q[2] = blo
                     \/ CharAt(a, q[1] - 1) # CharAt(b, q[2] - 1)}}

\* find_longest_match: the longest block a[i..i+k-1] = b[j..j+k-1] inside the
\* ranges; of the longest, the one starting earliest in a, and of those the
\* one starting earliest in b; <<alo, blo, 0>> when nothing matches.
find_longest_match(a, b, alo, ahi, blo, bhi) ==
    Only({IF T = {} THEN <<alo, blo, 0>>
          ELSE CHOOSE t \in T :
                   \A u \in T :
                       \/ t[3] > u[3]
                       \/ t[3] = u[3] /\ t[1] < u[1]
                       \/ t[3] = u[3] /\ t[1] = u[1] /\ t[2] <= u[2]
          : T \in {CommonBlocks(a, b, alo, ahi, blo, bhi)}})

\* The recursion of get_matching_blocks, blocks in increasing order.
RECURSIVE RawBlocks(_, _, _, _, _, _)
RawBlocks(a, b, alo, ahi, blo, bhi) ==
    Only({IF m[3] = 0 THEN <<>>
          ELSE (IF alo < m[1] /\ blo < m[2]
                THEN RawBlocks(a, b, alo, m[1], blo, m[2]) ELSE <<>>)
               \o <<m>>
               \o (IF m[1] + m[3] < ahi /\ m[2] + m[3] < bhi
                   THEN RawBlocks(a, b, m[1] + m[3], ahi, m[2] + m[3], bhi) ELSE <<>>)
          : m \in {find_longest_match(a, b, alo, ahi, blo, bhi)}})

\* get_matching_blocks collapses adjacent blocks.
RECURSIVE Collapse(_)
Collapse(bs0) ==
    Only({IF Len(bs) < 2 THEN bs
          ELSE IF bs[1][1] + bs[1][3] = bs[2][1] /\ bs[1][2] + bs[1][3] = bs[2][2]
               THEN Collapse(<<<<bs[1][1], bs[1][2], bs[1][3] + bs[2][3]>>>> \o SubSeq(bs, 3, Len(bs)))
               ELSE <<bs[1]>> \o Collapse(Tail(bs))
          : bs \in {bs0}})

\* get_matching_blocks(), with its closing sentinel <<len(a)+1, len(b)+1, 0>>.
get_matching_blocks(a0, b0) ==
    Only({Collapse(RawBlocks(a, b, 1, Len(a) + 1, 1, Len(b) + 1))
              \o <<<<Len(a) + 1, Len(b) + 1, 0>>>>
          : a \in {a0}, b \in {b0}})

\* The sum of the sizes of the blocks bs[i..].
RECURSIVE SumSizes(_, _)
SumSizes(bs, i) == IF i > Len(bs) THEN 0 ELSE bs[i][3] + SumSizes(bs, i + 1)

\* ratio() = 2.0 * matches / (len(a) + len(b)), and 1.0 for two empty strings.
ratio(a0, b0) ==
    Only({IF Len(a) + Len(b) = 0 THEN Frac(1, 1)
          ELSE Only({Frac(2 * SumSizes(bs, 1), Len(a) + Len(b)) : bs \in {get_matching_blocks(a, b)}})
          : a \in {a0}, b \in {b0}})

-----------------------------------------------------------------------------
(* Entity matcher                                                          *)

\* Results of a matcher call: a match (directory and markdown file), None,
\* or an exception leaving the function.
NotRun == [kind |-> "notrun", dir |-> "", file |-> ""]
NoMatch == [kind |-> "none", dir |-> "", file |-> ""]
Raised == [kind |-> "raise", dir |-> "", file |-> ""]
Matched(d, f) == [kind |-> "match", dir |-> d, file |-> f]

\* score > 0.7 in both find_matching_markdown implementations
MatchThresholdNum == 7
MatchThresholdDen == 10
MatchThreshold == <<MatchThresholdNum, MatchThresholdDen>>

\* |x \cap y| / max(|x|, |y|) of two word sets, not both empty.
OverlapOf(x, y) == Frac(Cardinality(x \cap y), Max(Cardinality(x), Cardinality(y)))

\* len(search_words.intersection(dir_words)) / max(len(search_words), len(dir_words));
\* the division is undefined (ZeroDivisionError) when both sets are empty.
WordOverlapDefined(search, dir) ==
    WordSet(ToLower(search)) # {} \/ WordSet(ToLower(dir)) # {}

WordOverlap(search, dir) ==
    Only({OverlapOf(sw, dw) : sw \in {WordSet(ToLower(search))}, dw \in {WordSet(ToLower(dir))}})

\* The loop of MarkdownProcessor.find_matching_markdown from position i of
\* the directories: those without a markdown file are skipped, the first
\* whose word overlap exceeds 0.7 is returned.
RECURSIVE MPScan(_, _, _)
MPScan(search, dirs, i) ==
    IF i > Len(dirs) THEN NoMatch
    ELSE IF dirs[i].files = <<>> THEN MPScan(search, dirs, i + 1)
    ELSE IF ~WordOverlapDefined(search, dirs[i].name) THEN Raised
    ELSE IF FGt(WordOverlap(search, dirs[i].name), MatchThreshold)
         THEN Matched(dirs[i].name, dirs[i].files[1])
    ELSE MPScan(search, dirs, i + 1)

MarkdownProcessor_find_matching_markdown(book_filename, pool) ==
    Only({MPScan(search, dirs, 1)
          : search \in {Stem(book_filename)}, dirs \in {SelectSeq(pool, LAMBDA d : d.isDir)}})

\* re.sub(r'[^\w\s]', '', s.lower())
IsWordOrSpace(c) == IsWordChar(c) \/ IsSpace(c)
CleanForSimilarity(s) == Filter(ToLower(s), IsWordOrSpace)

\* The word-set half of _calculate_similarity.
WordSim(words1, words2) ==
    IF words1 # {} /\ words2 # {} THEN OverlapOf(words1, words2) ELSE FZero

\* BookProcessor._calculate_similarity: the mean of the SequenceMatcher
\* ratio and the word-set overlap of the cleaned strings; 0.0 when either
\* argument is empty.
_calculate_similarity(str1, str2) ==
    IF str1 = "" \/ str2 = "" THEN FZero
    ELSE Only({FMul(FAdd(ratio(c1, c2),
                         Only({WordSim(w1, w2) : w1 \in {SplitSet(c1)}, w2 \in {SplitSet(c2)}})),
                    <<1, 2>>)
               : c1 \in {CleanForSimilarity(str1)}, c2 \in {CleanForSimilarity(str2)}})

\* direct*0.4 + word*0.6 and title_only*0.4 + word*0.6, the larger of the two
Blend(direct_score, title_only_score, word_match_score) ==
    FMax(FAdd(FMul(direct_score, <<2, 5>>), FMul(word_match_score, <<3, 5>>)),
         FAdd(FMul(title_only_score, <<2, 5>>), FMul(word_match_score, <<3, 5>>)))

\* The combined score BookProcessor.find_matching_markdown gives a directory.
BPScore(title, author, dirName) ==
    Only({Blend(_calculate_similarity(search_title, dir_name),
                _calculate_similarity(ToLower(title), dir_name),
                Only({WordSim(sw, dw) : sw \in {WordSet(search_title)}, dw \in {WordSet(dir_name)}}))
          : search_title \in {ToLower(IF author # "" THEN author \o " - " \o title ELSE title)},
            dir_name \in {ToLower(dirName)}})

\* The loop of BookProcessor.find_matching_markdown: the position of the
\* best directory so far (0: none) after scanning pool positions i.. .
RECURSIVE BPScan(_, _, _, _, _, _)
BPScan(title, author, pool, i, best, bestScore) ==
    IF i > Len(pool) THEN best
    ELSE Only({IF pool[i].isDir /\ FGt(score, bestScore) /\ FGt(score, MatchThreshold)
               THEN BPScan(title, author, pool, i + 1, i, score)
               ELSE BPScan(title, author, pool, i + 1, best, bestScore)
               : score \in {BPScore(title, author, pool[i].name)}})

InSeq(x, q) == \E k \in 1..Len(q) : q[k] = x

\* The main markdown file of the chosen directory: index.md, <dir>.md, or
\* the first markdown file of the directory; None when it has none.
MainMarkdown(d) ==
    IF InSeq("index.md", d.files) THEN Matched(d.name, "index.md")
    ELSE IF InSeq(d.name \o ".md", d.files) THEN Matched(d.name, d.name \o ".md")
    ELSE IF d.files # <<>> THEN Matched(d.name, d.files[1])
    ELSE NoMatch

BookProcessor_find_matching_markdown(title, author, pool) ==
    IF title = "" THEN NoMatch
    ELSE Only({IF best = 0 THEN NoMatch ELSE MainMarkdown(pool[best])
               : best \in {BPScan(title, author, pool, 1, 0, FZero)}})

-----------------------------------------------------------------------------
(* The matcher's inputs and specification                                  *)

\* Longest MARKDOWN_DIR listing explored.
MaxPool == 2

Dir(n, fs) == [name |-> n, isDir |-> TRUE, files |-> fs]

PoolEntries ==
    { Dir("Harry Potter The Prequel", <<"index.md">>),
      Dir("Quidditch Through the Ages", <<"Quidditch Through the Ages.md">>),
      Dir("Harry Potter Prequel", <<"book.md">>),
      Dir("---", <<"notes.md">>),
      Dir("Harry Potter The Prequel Drafts", <<>>),
      [name |-> "Harry Potter The Prequel.txt", isDir |-> FALSE, files |-> <<>>] }

Queries ==
    { "J. K. Rowling - Harry Potter The Prequel",
      "Harry Potter The Prequel",
      "harry potter: the prequel!",
      "???",
      "" }

Authors == {"", "J. K. Rowling"}

\* Listings without repeated entries (a directory holds a name once).
Pools ==
    UNION { {q \in [1..n -> PoolEntries] : \A i, j \in 1..n : i # j => q[i] # q[j]} : n \in 0..MaxPool }

InitMatch ==
    /\ mQuery \in Queries \X Authors
    /\ mPool \in Pools
    /\ mResult = NotRun
    /\ bResult = NotRun

\* MarkdownProcessor.find_matching_markdown(title), as process_books and
\* create_landing_page call it.
MarkdownFind ==
    /\ mResult = NotRun
    /\ mResult' = MarkdownProcessor_find_matching_markdown(mQuery[1], mPool)
    /\ UNCHANGED <<mQuery, mPool, bResult, othersOfMatch>>

\* BookProcessor.find_matching_markdown(title=..., author=...).
BookFind ==
    /\ bResult = NotRun
    /\ bResult' = BookProcessor_find_matching_markdown(mQuery[1], mQuery[2], mPool)
    /\ UNCHANGED <<mQuery, mPool, mResult, othersOfMatch>>

NextMatch == MarkdownFind \/ BookFind

-----------------------------------------------------------------------------
(* Landing pages: text helpers                                             *)

\* str.strip()
Strip(s0) ==
    Only({Only({IF ns = {} THEN "" ELSE SubSeq(s, MinOf(ns), MaxOf(ns))
                : ns \in {{i \in 1..Len(s) : ~IsSpace(CharAt(s, i))}}})
          : s \in {s0}})

\* sep.join(q)
Join(q0, sep) ==
    Only({Concat([i \in 1..Len(q) |-> IF i = 1 THEN q[i] ELSE sep \o q[i]], 1, Len(q))
          : q \in {q0}})

\* s[i:].split(c) for a one-character separator c
RECURSIVE SplitFrom(_, _, _)
SplitFrom(s, c, i) ==
    Only({IF p = 0 THEN <<SubSeq(s, i, Len(s))>>
          ELSE <<SubSeq(s, i, p - 1)>> \o SplitFrom(s, c, p + 1)
          : p \in {Find(s, c, i)}})

SplitOn(s0, c) == Only({SplitFrom(s, c, 1) : s \in {s0}})

\* s * n
RECURSIVE Repeat(_, _)
Repeat(s, n) == IF n <= 0 THEN "" ELSE s \o Repeat(s, n - 1)

\* str(n) for a natural number n
RECURSIVE IntToStr(_)
IntToStr(n) ==
    IF n < 10 THEN CharAt(DigitChars, n + 1)
    ELSE IntToStr(n \div 10) \o CharAt(DigitChars, (n % 10) + 1)

\* The number a string of digits denotes (0 for the empty string).
RECURSIVE ToNat(_, _)
ToNat(s, n) ==
    IF n = 0 THEN 0
    ELSE 10 * ToNat(s, n - 1) + (Find(DigitChars, CharAt(s, n), 1) - 1)

RECURSIVE Pow10(_)
Pow10(k) == IF k = 0 THEN 1 ELSE 10 * Pow10(k - 1)

AllDigits(s) == \A i \in 1..Len(s) : IsDigit(CharAt(s, i))

\* float(s) for a string: <<TRUE, value>> for an unsigned decimal literal
\* (digits with an optional fraction, surrounding whitespace ignored),
\* <<FALSE, 0>> (ValueError) for a string holding any other character.  The
\* strings explored hold no sign, exponent, underscore, "inf" or "nan".
ParseFloat(s0) ==
    Only({Only({IF dot = 0
                THEN IF t # "" /\ AllDigits(t) THEN <<TRUE, Frac(ToNat(t, Len(t)), 1)>>
                     ELSE <<FALSE, FZero>>
                ELSE Only({IF AllDigits(ip) /\ AllDigits(fp) /\ ip \o fp # ""
                           THEN <<TRUE, Frac(ToNat(ip \o fp, Len(ip) + Len(fp)), Pow10(Len(fp)))>>
                           ELSE <<FALSE, FZero>>
                           : ip \in {SubSeq(t, 1, dot - 1)}, fp \in {SubSeq(t, dot + 1, Len(t))}})
                : dot \in {Find(t, ".", 1)}})
          : t \in {Strip(s0)}})

\* int(x) of a non-negative fraction
Floor(x0) == Only({x[1] \div x[2] : x \in {x0}})

-----------------------------------------------------------------------------
(* Metadata dictionaries: sequences of <<key, value>> in insertion order.  *)
(* A value is a string <<"str", s>> or a number <<"int", n>>.              *)

S(x) == <<"str", x>>
N(n) == <<"int", n>>

\* str(value), as an f-string formats it
Str(v) == IF v[1] = "int" THEN IntToStr(v[2]) ELSE v[2]
\* bool(value)
Truthy(v) == IF v[1] = "int" THEN v[2] # 0 ELSE v[2] # ""

DictHas(d, k) == \E i \in 1..Len(d) : d[i][1] = k
DictGet(d, k, default) ==
    IF DictHas(d, k) THEN d[CHOOSE i \in 1..Len(d) : d[i][1] = k][2] ELSE default
\* d[k] = v: an existing key keeps its place, a new key goes last
DictSet(d0, k, v) ==
    Only({IF DictHas(d, k)
          THEN [i \in 1..Len(d) |-> IF d[i][1] = k THEN <<k, v>> ELSE d[i]]
          ELSE Append(d, <<k, v>>)
          : d \in {d0}})

\* float(value): <<ok, fraction>>
FloatOf(v) == IF v[1] = "int" THEN <<TRUE, Frac(v[2], 1)>> ELSE ParseFloat(v[2])

-----------------------------------------------------------------------------
(* Landing pages: the merge writers                                        *)

\* re.sub(r'[:\/:*?"<>|]', '-', title)
UnsafeTitleChars == {":", "/", "*", "?", "\"", "<", ">", "|"}
SafeTitle(title) ==
    Only({Concat([i \in 1..Len(t) |-> IF CharAt(t, i) \in UnsafeTitleChars THEN "-" ELSE CharAt(t, i)],
                 1, Len(t))
          : t \in {title}})

\* re.search(r'---\n(.*?)\n---', content, re.DOTALL): <<found, group(1)>>.
\* The match starts at the first "---\n"; a later start has no end either.
YamlBlock(content) ==
    Only({IF p = 0 THEN <<FALSE, "">>
          ELSE Only({IF q = 0 THEN <<FALSE, "">> ELSE <<TRUE, SubSeq(content, p + 4, q - 1)>>
                     : q \in {Find(content, "\n---", p + 4)}})
          : p \in {Find(content, "---\n", 1)}})

\* The first position >= i of s that holds no whitespace, Len(s)+1 if none.
FirstNonSpace(s, i) ==
    Only({IF ns = {} THEN Len(s) + 1 ELSE MinOf(ns)
          : ns \in {{k \in i..Len(s) : ~IsSpace(CharAt(s, k))}}})

\* The end (exclusive) of the line of s that position i lies on.
LineEnd(s, i) == Only({IF e = 0 THEN Len(s) + 1 ELSE e : e \in {Find(s, "\n", i)}})

\* re.search(rf'{field}:\s*(.*)', yaml): <<found, group(1).strip()>>.  \s*
\* also runs over line ends; the group is the rest of the line reached.
FieldValue(yaml, field) ==
    Only({IF p = 0 THEN <<FALSE, "">>
          ELSE Only({<<TRUE, Strip(SubSeq(yaml, b, LineEnd(yaml, b) - 1))>>
                     : b \in {FirstNonSpace(yaml, p + Len(field) + 1)}})
          : p \in {Find(yaml, field \o ":", 1)}})

preserve_fields == <<"status", "reading_progress", "last_annotated", "jdnumber">>

\* The loop over preserve_fields from position i.
RECURSIVE PreserveFrom(_, _, _)
PreserveFrom(yaml, md, i) ==
    IF i > Len(preserve_fields) THEN md
    ELSE Only({IF m[1] /\ m[2] # ""
               THEN PreserveFrom(yaml, DictSet(md, preserve_fields[i], S(m[2])), i + 1)
               ELSE PreserveFrom(yaml, md, i + 1)
               : m \in {FieldValue(yaml, preserve_fields[i])}})

\* _update_existing_metadata / update_existing_metadata on the text of the
\* existing landing page.
_update_existing_metadata(content, new_metadata) ==
    Only({IF ~y[1] THEN new_metadata ELSE PreserveFrom(y[2], new_metadata, 1)
          : y \in {YamlBlock(content)}})

\* key: "value" for every truthy value whose key is not excluded
FieldLines(md, excluded) ==
    Only({[i \in 1..Len(sel) |-> sel[i][1] \o ": \"" \o Str(sel[i][2]) \o "\""]
          : sel \in {SelectSeq(md, LAMBDA e : e[1] \notin excluded /\ Truthy(e[2]))}})

\* "  - tag" for every comma-separated tag
TagLines(tags) ==
    Only({[i \in 1..Len(parts) |-> "  - " \o Strip(parts[i])] : parts \in {SplitOn(tags, ",")}})

HasTags(md) == DictHas(md, "tags") /\ Truthy(DictGet(md, "tags", S("")))

\* metadata.MarkdownProcessor._build_yaml_frontmatter (and the same lines of
\* the indexer script's create_markdown)
_build_yaml_frontmatter(md) ==
    <<"---">> \o FieldLines(md, {"tags"})
        \o (IF HasTags(md) THEN <<"tags:">> \o TagLines(DictGet(md, "tags", S(""))[2])
            ELSE <<"tags:", "  - book">>)
        \o <<"---">>

\* _create_progress_bar; "'" stands for the backquote, "#" for the full
\* block U+2588 and "-" for the light shade U+2591.
_create_progress_bar(progress_value) ==
    Only({"'[" \o Repeat("#", Floor(FMul(p, <<20, 1>>)))
               \o Repeat("-", 20 - Floor(FMul(p, <<20, 1>>)))
               \o "]' " \o IntToStr(Floor(FMul(p, <<100, 1>>))) \o "%"
          : p \in {Only({IF f[1] THEN (IF FGt(f[2], <<1, 1>>) THEN <<1, 1>> ELSE f[2]) ELSE FZero
                         : f \in {FloatOf(progress_value)}})}})

\* float(metadata.get('reading_progress', 0)) raises ValueError when FALSE.
ProgressDefined(md) == FloatOf(DictGet(md, "reading_progress", N(0)))[1]

\* The "Reading Status" lines and the template of the notes section, the
\* same in the three writers.
ReadingStatusLines(md) ==
    << "\n## Reading Status",
       "- **Status**: " \o Str(DictGet(md, "status", S("New"))),
       "- **Last opened**: " \o Str(DictGet(md, "last_opened", S(""))),
       "- **Progress**: "
           \o IntToStr(Floor(FMul(FloatOf(DictGet(md, "reading_progress", N(0)))[2], <<100, 1>>)))
           \o "%",
       "\n### Progress Bar",
       _create_progress_bar(DictGet(md, "reading_progress", N(0))) >>

NotesHeading == "\n## Notes & Highlights"

NotesTemplateLines ==
    << NotesHeading,
       "\n### Key Concepts", "- ",
       "\n### Important Quotes", "- ",
       "\n### Questions & Reflections", "- " >>

\* Paths below VAULT_DIR (config/default_config.py).
MarkdownDirRel == "Books/Markdowns"
AnnotationDirRel == "Books/Annotations"

\* _add_version_links: links to MARKDOWN_DIR/<safe_title>.md and
\* BOOKS_DIR/Annotated/<safe_title>.md where they exist.
VersionLinks(markdownDir, safe_title, markdownExists, annotatedExists) ==
    (IF markdownExists
     THEN <<"- [[" \o markdownDir \o "/" \o safe_title \o ".md|Markdown Version]]">> ELSE <<>>)
    \o (IF annotatedExists
        THEN <<"- [[Books/Annotated/" \o safe_title \o ".md|Annotated Markdown]]">> ELSE <<>>)

\* The lines of metadata.MarkdownProcessor._build_markdown_content.
MarkdownContentLines(md, safe_title, markdownExists, annotatedExists) ==
    << Join(_build_yaml_frontmatter(md), "\n"),
       "\n# " \o Str(DictGet(md, "title", S("None"))),
       "\n## Document Versions",
       "- [[" \o Str(DictGet(md, "path", S(""))) \o "|Original ("
             \o Str(DictGet(md, "format", S("None"))) \o ")]]",
       "- [[Books/Annotations/" \o safe_title \o " - Annotations.md|Annotations]]" >>
    \o VersionLinks(MarkdownDirRel, safe_title, markdownExists, annotatedExists)
    \o ReadingStatusLines(md)
    \o NotesTemplateLines

_build_markdown_content(md, safe_title, markdownExists, annotatedExists) ==
    Join(MarkdownContentLines(md, safe_title, markdownExists, annotatedExists), "\n")

\* The front matter of an annotation document.
AnnotationFrontmatter(md, safe_title) ==
    Join(<< "---",
            "title: \"" \o Str(DictGet(md, "title", S(""))) \o " - Annotations\"",
            "author: \"" \o Str(DictGet(md, "author", S("Unknown"))) \o "\"",
            "annotation-target: " \o Str(DictGet(md, "path", S(""))),
            "parent_document: Books/" \o safe_title \o ".md",
            "---" >>, "\n")

NoFile == [exists |-> FALSE, text |-> ""]
File(t) == [exists |-> TRUE, text |-> t]

\* The text _create_annotation_document writes: the document's template,
\* or the new front matter followed by what the existing document holds
\* after its first "---\n\n" (when that is not at the very start).
AnnotationContent(md, safe_title, existing) ==
    Only({Only({IF existing.exists /\ p > 1
                THEN fm \o "\n\n" \o SubSeq(existing.text, p + 5, Len(existing.text))
                ELSE fm \o "\n\n# " \o Str(DictGet(md, "title", S("None"))) \o " - Annotations\n\n"
                        \o "This document is for annotating the original file using the Obsidian Annotator plugin.\n"
                : p \in {IF existing.exists THEN Find(existing.text, "---\n\n", 1) ELSE 0}})
          : fm \in {AnnotationFrontmatter(md, safe_title)}})

\* processor.MarkdownProcessor._build_landing_page_content
_build_landing_page_content(md) ==
    Join(<< Join(<<"---">> \o FieldLines(md, {"tags", "annotation_path", "markdown_file"})
                     \o <<"tags:", "  - book">>
                     \o (IF HasTags(md) THEN TagLines(DictGet(md, "tags", S(""))[2]) ELSE <<>>)
                     \o <<"---">>, "\n"),
            "\n# " \o Str(DictGet(md, "title", S("Untitled"))),
            "\n## Document Versions" >>
         \o (IF DictHas(md, "annotation_path")
             THEN <<"- [[" \o Str(DictGet(md, "annotation_path", S(""))) \o "|Read & Annotate]]">>
             ELSE <<>>)
         \o (IF DictHas(md, "markdown_file")
             THEN <<"- [[" \o Str(DictGet(md, "markdown_file", S(""))) \o "|Markdown Version]]">>
             ELSE <<>>)
         \o ReadingStatusLines(md)
         \o NotesTemplateLines, "\n")

\* The metadata create_landing_page builds the page from: the annotation
\* document's path, and the matched markdown directory and file if any.
LandingMetadata(md, safe_title, match) ==
    Only({IF match.kind = "match"
          THEN DictSet(DictSet(m1, "markdown_path", S(MarkdownDirRel \o "/" \o match.dir)),
                       "markdown_file", S(MarkdownDirRel \o "/" \o match.dir \o "/" \o match.file))
          ELSE m1
          : m1 \in {DictSet(md, "annotation_path",
                            S(AnnotationDirRel \o "/" \o safe_title \o " - Annotations.md"))}})

\* The indexer script: MARKDOWN_DIR and the annotation front matter, whose
\* author line is written only for metadata that has an author.
IndexerMarkdownDirRel == "Books/Markdown"

IndexerAnnotationFrontmatter(md, safe_title) ==
    Join(<<"---", "title: \"" \o Str(DictGet(md, "title", S(""))) \o " - Annotations\"">>
         \o (IF DictHas(md, "author")
             THEN <<"author: \"" \o Str(DictGet(md, "author", S(""))) \o "\"">> ELSE <<>>)
         \o << "annotation-target: " \o Str(DictGet(md, "path", S(""))),
               "parent_document: Books/" \o safe_title \o ".md",
               "---" >>, "\n")

IndexerAnnotationContent(md, safe_title, existing) ==
    Only({Only({IF existing.exists /\ p > 1
                THEN fm \o "\n\n" \o SubSeq(existing.text, p + 5, Len(existing.text))
                ELSE fm \o "\n\n# " \o Str(DictGet(md, "title", S("None"))) \o " - Annotations\n\n"
                        \o "This document is for annotating the original file using the Obsidian Annotator plugin.\n"
                : p \in {IF existing.exists THEN Find(existing.text, "---\n\n", 1) ELSE 0}})
          : fm \in {IndexerAnnotationFrontmatter(md, safe_title)}})

\* re.search(r'## Notes & Highlights(.*?)(?=\n## |$)', text, re.DOTALL):
\* <<found, group(1)>>.  The group ends before the next "\n## ", before a
\* newline that ends the text, or at the end of the text, whichever is first.
NotesMatch(text) ==
    Only({IF p = 0 THEN <<FALSE, "">>
          ELSE Only({<<TRUE, SubSeq(text, p + 21, MinOf(ends) - 1)>>
                     : ends \in {{Len(text) + 1}
                                 \cup (IF Len(text) >= p + 21 /\ CharAt(text, Len(text)) = "\n"
                                       THEN {Len(text)} ELSE {})
                                 \cup (IF Find(text, "\n## ", p + 21) # 0
                                       THEN {Find(text, "\n## ", p + 21)} ELSE {})}})
          : p \in {Find(text, "## Notes & Highlights", 1)}})

\* The lines of the indexer script's create_markdown; the notes section of
\* an existing page replaces the template's.
IndexerContentLines(md, safe_title, markdownExists, annotatedExists, existing) ==
    Only({head \o (IF existing.exists /\ NotesMatch(existing.text)[1]
                   THEN <<NotesHeading \o NotesMatch(existing.text)[2]>>
                   ELSE NotesTemplateLines)
          : head \in {<< Join(_build_yaml_frontmatter(md), "\n"),
                         "\n# " \o Str(DictGet(md, "title", S("None"))),
                         "\n## Document Versions",
                         "- [[" \o Str(DictGet(md, "path", S(""))) \o "|Original ("
                               \o Str(DictGet(md, "format", S("None"))) \o ")]]",
                         "- [[Books/Annotations/" \o safe_title \o " - Annotations.md|Annotations]]" >>
                      \o VersionLinks(IndexerMarkdownDirRel, safe_title, markdownExists, annotatedExists)
                      \o ReadingStatusLines(md)}})

-----------------------------------------------------------------------------
(* Landing pages: state machine                                            *)

\* Most writer calls and most user edits in a behaviour.
MaxRuns == 2
MaxEdits == 1

\* A file system directory: a function from the names of its files to
\* their text.
ReadFile(fs, name) == IF name \in DOMAIN fs THEN File(fs[name]) ELSE NoFile
WriteFile(fs, name, text) ==
    [n \in (DOMAIN fs) \cup {name} |-> IF n = name THEN text ELSE fs[n]]

\* s with the first occurrence of old replaced by new (s if there is none)
ReplaceFirst(s, old, new) ==
    Only({IF p = 0 THEN s
          ELSE SubSeq(s, 1, p - 1) \o new \o SubSeq(s, p + Len(old), Len(s))
          : p \in {Find(s, old, 1)}})

\* Metadata as extract_metadata returns it: status "new", reading_progress 0.
Metas ==
    { << <<"path", S("Books/Originals/Dune.epub")>>, <<"title", S("Dune")>>,
         <<"author", S("Frank Herbert")>>, <<"format", S("EPUB")>>,
         <<"tags", S("")>>, <<"last_opened", S("2024-01-01")>>,
         <<"status", S("new")>>, <<"reading_progress", N(0)>> >>,
      << <<"path", S("Books/Originals/Dune Messiah.pdf")>>, <<"title", S("Dune: Messiah")>>,
         <<"author", S("Frank Herbert")>>, <<"format", S("PDF")>>,
         <<"tags", S("scifi, classic")>>, <<"last_opened", S("2024-01-01")>>,
         <<"status", S("new")>>, <<"reading_progress", N(0)>> >> }

\* MARKDOWN_DIR listings for the landing-page writers.
MergePools ==
    { <<>>,
      <<Dir("Dune", <<"Dune.md">>)>>,
      <<[name |-> "Dune.md", isDir |-> FALSE, files |-> <<>>]>> }

\* What a user types into a landing page between runs: <<old, new>> text.
UserEdits ==
    { <<"status: \"new\"", "status: \"current\"">>,
      <<"status: \"new\"", "status: reading">>,
      <<"---\npath:", "---\nreading_progress: 0.5\npath:">>,
      <<"### Key Concepts\n- \n", "### Key Concepts\n- Fear is the mind-killer\n">> }

NoStep == [op |-> "none", ok |-> TRUE, n |-> 0, runs |-> 0, edits |-> 0]

Step(op, ok) ==
    [op |-> op, ok |-> ok,
     n |-> IF ok /\ last.op = op /\ last.ok THEN last.n + 1 ELSE IF ok THEN 1 ELSE 0,
     runs |-> last.runs + 1, edits |-> last.edits]

InitMerge ==
    /\ meta \in Metas
    /\ hasAnnotationDir \in BOOLEAN
    /\ books = <<>>
    /\ annots = <<>>
    /\ annotated \in {{}, {"Dune.md"}}
    /\ prevBooks = <<>>
    /\ last = NoStep

Title == Str(DictGet(meta, "title", S("")))
LandingName == SafeTitle(Title) \o ".md"
AnnotationName == SafeTitle(Title) \o " - Annotations.md"
MarkdownVersionExists == \E i \in 1..Len(mPool) : mPool[i].name = LandingName
AnnotatedVersionExists == LandingName \in annotated

\* metadata.MarkdownProcessor.create_markdown(metadata): the preserved
\* fields are read from the existing page, the annotation document is
\* written, then the page; float() of the progress may raise in between.
CreateMarkdown ==
    /\ last.runs < MaxRuns
    /\ \E md \in {IF LandingName \in DOMAIN books
                  THEN _update_existing_metadata(books[LandingName], meta) ELSE meta} :
          /\ annots' = WriteFile(annots, AnnotationName,
                                 AnnotationContent(md, SafeTitle(Title), ReadFile(annots, AnnotationName)))
          /\ IF ProgressDefined(md)
             THEN /\ books' = WriteFile(books, LandingName,
                                        _build_markdown_content(md, SafeTitle(Title),
                                                                MarkdownVersionExists,
                                                                AnnotatedVersionExists))
                  /\ last' = Step("create_markdown", TRUE)
             ELSE /\ books' = books
                  /\ last' = Step("create_markdown", FALSE)
    /\ prevBooks' = books
    /\ UNCHANGED <<meta, hasAnnotationDir, annotated, othersOfMerge>>

\* processor.MarkdownProcessor.create_landing_page(metadata): without
\* config.ANNOTATION_DIR the call raises before it writes; otherwise the
\* annotation document is written, the markdown directory is matched (the
\* matcher may raise), and the page is written anew.
CreateLandingPage ==
    /\ last.runs < MaxRuns
    /\ prevBooks' = books
    /\ UNCHANGED <<meta, hasAnnotationDir, annotated, othersOfMerge>>
    /\ IF ~hasAnnotationDir
       THEN /\ UNCHANGED <<books, annots>>
            /\ last' = Step("create_landing_page", FALSE)
       ELSE /\ annots' = WriteFile(annots, AnnotationName,
                                   AnnotationContent(meta, SafeTitle(Title),
                                                     ReadFile(annots, AnnotationName)))
            /\ \E match \in {MarkdownProcessor_find_matching_markdown(Title, mPool)} :
                  IF match.kind = "raise"
                  THEN /\ books' = books
                       /\ last' = Step("create_landing_page", FALSE)
                  ELSE /\ books' = WriteFile(books, LandingName,
                                             _build_landing_page_content(
                                                 LandingMetadata(meta, SafeTitle(Title), match)))
                       /\ last' = Step("create_landing_page", TRUE)

\* The indexer script's create_markdown(metadata).
IndexerCreateMarkdown ==
    /\ last.runs < MaxRuns
    /\ \E md \in {IF LandingName \in DOMAIN books
                  THEN _update_existing_metadata(books[LandingName], meta) ELSE meta} :
          /\ annots' = WriteFile(annots, AnnotationName,
                                 IndexerAnnotationContent(md, SafeTitle(Title),
                                                          ReadFile(annots, AnnotationName)))
          /\ IF ProgressDefined(md)
             THEN /\ books' = WriteFile(books, LandingName,
                                        Join(IndexerContentLines(md, SafeTitle(Title),
                                                                 MarkdownVersionExists,
                                                                 AnnotatedVersionExists,
                                                                 ReadFile(books, LandingName)), "\n"))
                  /\ last' = Step("indexer_create_markdown", TRUE)
             ELSE /\ books' = books
                  /\ last' = Step("indexer_create_markdown", FALSE)
    /\ prevBooks' = books
    /\ UNCHANGED <<meta, hasAnnotationDir, annotated, othersOfMerge>>

\* The user edits the landing page in the vault.
UserEdit ==
    /\ LandingName \in DOMAIN books
    /\ last.edits < MaxEdits
    /\ \E e \in UserEdits :
          /\ Contains(books[LandingName], e[1])
          /\ books' = WriteFile(books, LandingName, ReplaceFirst(books[LandingName], e[1], e[2]))
    /\ prevBooks' = books
    /\ last' = [op |-> "edit", ok |-> TRUE, n |-> 0, runs |-> last.runs, edits |-> last.edits + 1]
    /\ UNCHANGED <<meta, hasAnnotationDir, annots, annotated, othersOfMerge>>

NextMerge == CreateMarkdown \/ CreateLandingPage \/ IndexerCreateMarkdown \/ UserEdit

-----------------------------------------------------------------------------
(* Landing pages: properties                                               *)

\* C1: a second successive run of the merge writer (create_markdown) with
\* the same generated metadata leaves the landing pages byte-identical to
\* what the first run produced.
C1_MergeWriteIdempotent ==
    (last.ok /\ last.n >= 2 /\ last.op \in {"create_markdown", "indexer_create_markdown"})
        => books = prevBooks

\* A value without the double quotes around it.
Unquote(v) ==
    IF Len(v) >= 2 /\ CharAt(v, 1) = "\"" /\ CharAt(v, Len(v)) = "\""
    THEN SubSeq(v, 2, Len(v) - 1) ELSE v

\* The value of a field in a front matter block: what follows "field:" on
\* the first line that starts with it, without surrounding blanks and
\* quotes; "" if there is no such line.
YamlValue(yaml, field) ==
    LET lines == SplitOn(yaml, "\n")
        hits == {k \in 1..Len(lines) :
                    /\ Len(lines[k]) > Len(field)
                    /\ SubSeq(lines[k], 1, Len(field) + 1) = field \o ":"}
    IN  IF hits = {} THEN ""
        ELSE Unquote(Strip(SubSeq(lines[MinOf(hits)], Len(field) + 2, Len(lines[MinOf(hits)]))))

FrontMatterOf(fs) == YamlBlock(ReadFile(fs, LandingName).text)[2]

\* C2: after the merge writer has rewritten an existing landing page, every
\* preserve-set field that had a non-empty value in the page's front matter
\* has exactly that value in the written front matter.
C2_PreservedFieldsKeepValue ==
    (last.ok /\ last.op \in {"create_markdown", "indexer_create_markdown"}
        /\ LandingName \in DOMAIN prevBooks)
        => \A k \in 1..Len(preserve_fields) :
               YamlValue(FrontMatterOf(prevBooks), preserve_fields[k]) # ""
                   => YamlValue(FrontMatterOf(books), preserve_fields[k])
                          = YamlValue(FrontMatterOf(prevBooks), preserve_fields[k])

\* C3: after create_landing_page or create_markdown has run for a title
\* whose landing page existed, the text of the page's "## Notes &
\* Highlights" section is still in the page.
C3_NotesSectionSurvives ==
    (last.ok /\ last.op \in {"create_markdown", "create_landing_page"}
        /\ LandingName \in DOMAIN prevBooks
        /\ NotesMatch(prevBooks[LandingName])[1])
        => Contains(books[LandingName],
                    "## Notes & Highlights" \o NotesMatch(prevBooks[LandingName])[2])

-----------------------------------------------------------------------------
(* Annotation sync: locating, anchoring and highlighting                   *)
(*                                                                         *)
(* Lines are numbered from 1 (Python's match_index + 1).  The text         *)
(* explored holds no backquote.                                            *)

\* The runs of a set of <<first, last>> pairs in the order of their place.
RECURSIVE SortedRuns(_)
SortedRuns(R) ==
    IF R = {} THEN <<>>
    ELSE Only({<<m>> \o SortedRuns(R \ {m}) : m \in {CHOOSE r \in R : \A q \in R : r[1] <= q[1]}})

\* s.split()
Words(s0) ==
    Only({Only({[k \in 1..Len(rs) |-> SubSeq(s, rs[k][1], rs[k][2])]
                : rs \in {SortedRuns(Runs(s, NotSpace))}})
          : s \in {s0}})

\* _get_substrings(text): the chunks of 4 .. min(12, len(words)) - 1
\* successive words, joined by blanks, that are at least 20 characters long
\* (as a set: the caller takes the best over all of them).
_get_substrings(text) ==
    Only({{c \in UNION {{Join(SubSeq(words, k, k + size - 1), " ")
                          : k \in 1..(Len(words) - size + 1)}
                         : size \in 4..(Min(12, Len(words)) - 1)}
             : Len(c) >= 20}
          : words \in {Words(text)}})

\* re.sub(r'[*_`~#>]+', '', content)
FormatChars == {"*", "_", "~", "#", ">"}
NotFormatChar(c) == c \notin FormatChars
CleanMarkdown(content) == Filter(content, NotFormatChar)

\* The greatest of a non-empty set of fractions.
MaxFrac(F) == CHOOSE x \in F : \A y \in F : FGe(x, y)

FuzzyThreshold == <<4, 5>>

\* The ratio _find_text_in_markdown gives a line: SequenceMatcher's, raised
\* for a search text and a line both longer than 40 characters to the share
\* of the search text that a chunk found in the line covers.
LineRatio(main_search, line) ==
    IF Len(main_search) > 40 /\ Len(line) > 40
    THEN MaxFrac({ratio(main_search, line)}
                 \cup {Frac(Len(c), Len(main_search))
                       : c \in {d \in _get_substrings(main_search) : Contains(line, d)}})
    ELSE ratio(main_search, line)

NotFound == [found |-> FALSE, index |-> 0, line |-> ""]

\* The fuzzy pass: the first line with the greatest ratio above 0.8, lines
\* shorter than 10 characters aside.
FuzzyFind(main_search, clean_lines, content_lines) ==
    Only({Only({IF cands = {} THEN NotFound
                ELSE [found |-> TRUE,
                      index |-> MinOf({k \in cands : \A j \in cands : FGe(rs[k], rs[j])}),
                      line |-> content_lines[MinOf({k \in cands : \A j \in cands : FGe(rs[k], rs[j])})]]
                : cands \in {{k \in DOMAIN rs : FGt(rs[k], FuzzyThreshold)}}})
          : rs \in {[k \in {j \in 1..Len(clean_lines) : Len(clean_lines[j]) >= 10}
                        |-> LineRatio(main_search, clean_lines[k])]}})

\* _find_text_in_markdown(search_text, content): the first line whose
\* cleaned text holds the search text, else the fuzzy pass.
_find_text_in_markdown(search_text0, content) ==
    IF search_text0 = "" \/ content = "" THEN NotFound
    ELSE Only({Only({IF exact # {}
                     THEN [found |-> TRUE, index |-> MinOf(exact), line |-> content_lines[MinOf(exact)]]
                     ELSE FuzzyFind(SplitOn(search_text, "\n")[1], clean_lines, content_lines)
                     : exact \in {{k \in 1..Len(clean_lines) : Contains(clean_lines[k], search_text)}}})
               : search_text \in {Strip(search_text0)},
                 clean_lines \in {SplitOn(CleanMarkdown(content), "\n")},
                 content_lines \in {SplitOn(content, "\n")}})

IsAlnum(c) == IsUpper(c) \/ IsLower(c) \/ IsDigit(c)

\* re.search(r'\^([a-zA-Z0-9]+)$', line): <<found, group(1)>>.  Only the
\* last "^" of the line can be followed by letters and digits up to the end.
BlockIdOf(line) ==
    Only({IF p = 0 \/ p = Len(line) THEN <<FALSE, "">>
          ELSE IF \A k \in (p + 1)..Len(line) : IsAlnum(CharAt(line, k))
               THEN <<TRUE, SubSeq(line, p + 1, Len(line))>>
               ELSE <<FALSE, "">>
          : p \in {RFind(line, "^")}})

\* _generate_block_id: ten hexadecimal characters; the n-th id generated.
_generate_block_id(n) == "b10c4000" \o IntToStr(n \div 10) \o IntToStr(n % 10)

\* lines with line k replaced by the sequence of lines repl
ReplaceLine(lines, k, repl) ==
    SubSeq(lines, 1, k - 1) \o repl \o SubSeq(lines, k + 1, Len(lines))

\* _ensure_block_id(content, match_index, match_line) with the id that
\* _generate_block_id would return: [id, content, updated, generated]
_ensure_block_id(content, index, newId) ==
    Only({IF index > Len(lines)
          THEN [id |-> "", content |-> content, updated |-> FALSE]
          ELSE Only({IF m[1]
                     THEN [id |-> m[2], content |-> content, updated |-> FALSE]
                     ELSE [id |-> newId,
                           content |-> Join(ReplaceLine(lines, index, <<lines[index] \o " ^" \o newId>>), "\n"),
                           updated |-> TRUE]
                     : m \in {BlockIdOf(lines[index])}})
          : lines \in {SplitOn(content, "\n")}})

\* max(blocks, key=lambda b: b.size): the first of the largest blocks
BestBlock(blocks) ==
    blocks[MinOf({k \in 1..Len(blocks) : \A j \in 1..Len(blocks) : blocks[k][3] >= blocks[j][3]})]

MinHighlightRatio == <<7, 10>>
WholeLineRatio == <<3, 5>>

\* The half-open range (1-based first, last + 1) of the line to highlight:
\* the largest block if longer than 10, else the whole line if the ratio
\* exceeds 0.6; <<0, 0>> for no highlight.  A match needs a block longer
\* than 20 or a ratio of at least 0.7.
HighlightRange(highlight_text, current_line) ==
    Only({Only({IF (\A k \in 1..Len(blocks) : blocks[k][3] <= 20) /\ FLt(r, MinHighlightRatio)
                THEN <<0, 0>>
                ELSE IF BestBlock(blocks)[3] > 10
                     THEN <<BestBlock(blocks)[2], BestBlock(blocks)[2] + BestBlock(blocks)[3]>>
                     ELSE IF FGt(r, WholeLineRatio) THEN <<1, Len(current_line) + 1>>
                          ELSE <<0, 0>>
                : r \in {Frac(2 * SumSizes(blocks, 1), Len(highlight_text) + Len(current_line))}})
          : blocks \in {get_matching_blocks(highlight_text, current_line)}})

\* _apply_highlighting(content, match_index, highlight_text, comment,
\* block_id): [content, updated]
_apply_highlighting(content, index, highlight_text, comment) ==
    Only({IF index > Len(lines) \/ Contains(lines[index], "==")
          THEN [content |-> content, updated |-> FALSE]
          ELSE Only({IF rg = <<0, 0>>
                     THEN [content |-> content, updated |-> FALSE]
                     ELSE [content |->
                              Join(ReplaceLine(lines, index,
                                      <<SubSeq(lines[index], 1, rg[1] - 1) \o "=="
                                          \o SubSeq(lines[index], rg[1], rg[2] - 1) \o "=="
                                          \o SubSeq(lines[index], rg[2], Len(lines[index]))>>
                                      \o (IF Strip(comment) # ""
                                          THEN <<"> [!note] Comment\n> " \o Strip(comment)>>
                                          ELSE <<>>)), "\n"),
                           updated |-> TRUE]
                     : rg \in {HighlightRange(highlight_text, lines[index])}})
          : lines \in {SplitOn(content, "\n")}})

\* s with every occurrence of old replaced by new, from position i on
RECURSIVE ReplaceAllFrom(_, _, _, _)
ReplaceAllFrom(s, old, new, i) ==
    Only({IF p = 0 THEN SubSeq(s, i, Len(s))
          ELSE SubSeq(s, i, p - 1) \o new \o ReplaceAllFrom(s, old, new, p + Len(old))
          : p \in {Find(s, old, i)}})

\* s.replace(old, new)
ReplaceAll(s, old, new) == ReplaceAllFrom(s, old, new, 1)

StartsWith(s, prefix) == Len(s) >= Len(prefix) /\ SubSeq(s, 1, Len(prefix)) = prefix

highlights_section == "## Highlights & Annotations"
markdown_links_section == "### Direct Links to Highlights"

\* The landing page with the two headings in place.
WithLinksSection(content) ==
    IF ~Contains(content, highlights_section)
    THEN IF Contains(content, "## Notes & Highlights")
         THEN ReplaceAll(content, "## Notes & Highlights",
                         highlights_section \o "\n\n" \o markdown_links_section
                             \o "\n\n## Notes & Highlights")
         ELSE content \o "\n\n" \o highlights_section \o "\n\n" \o markdown_links_section \o "\n"
    ELSE IF ~Contains(content, markdown_links_section)
         THEN Only({SubSeq(content, 1, pos - 1) \o "\n\n" \o markdown_links_section
                        \o SubSeq(content, pos, Len(content))
                    : pos \in {Find(content, highlights_section, 1) + Len(highlights_section)}})
         ELSE content

\* re.search(r'\^\w+', line).group(0), "" if there is no match
CaretToken(line) ==
    Only({IF ps = {} THEN ""
          ELSE SubSeq(line, MinOf(ps), RunEnd({k \in 1..Len(line) : IsWordChar(CharAt(line, k))},
                                              MinOf(ps) + 1))
          : ps \in {{k \in 1..(Len(line) - 1) :
                        CharAt(line, k) = "^" /\ IsWordChar(CharAt(line, k + 1))}}})

\* The "^id" tokens of the link lines of the existing section.
ExistingLinks(existing_section) ==
    Only({{CaretToken(lines[k])
             : k \in {j \in 1..Len(lines) :
                         /\ StartsWith(Strip(lines[j]), "- [[")
                         /\ Contains(lines[j], "^")
                         /\ CaretToken(lines[j]) # ""}}
          : lines \in {SplitOn(existing_section, "\n")}})

\* The link lines for the annotations from position i whose "^id" is not
\* among the existing links.
RECURSIVE NewLinks(_, _, _, _)
NewLinks(links, existing, rel_path, i) ==
    IF i > Len(links) THEN ""
    ELSE (IF ("^" \o links[i].id) \in existing THEN ""
          ELSE "- [[" \o rel_path \o "^" \o links[i].id \o "|"
                   \o (IF Len(links[i].text) > 50 THEN SubSeq(links[i].text, 1, 50) \o "..."
                       ELSE links[i].text)
                   \o "]]\n")
         \o NewLinks(links, existing, rel_path, i + 1)

\* _update_landing_page_links on the page's text: [write, content].  The
\* page is written only if a link is added.
_update_landing_page_links(content0, links, rel_path) ==
    Only({Only({Only({Only({IF added = ""
                            THEN [write |-> FALSE, content |-> content0]
                            ELSE IF next = 0
                                 THEN [write |-> TRUE,
                                       content |-> SubSeq(content, 1, lp - 1) \o "\n" \o added]
                                 ELSE [write |-> TRUE,
                                       content |-> SubSeq(content, 1, lp - 1)
                                           \o (IF existing # "" THEN "\n" \o existing \o "\n" ELSE "")
                                           \o "\n" \o added
                                           \o SubSeq(content, next, Len(content))]
                            : added \in {NewLinks(links,
                                                  IF next = 0 THEN {} ELSE ExistingLinks(existing),
                                                  rel_path, 1)}})
                      : existing \in {IF next = 0 THEN "" ELSE Strip(SubSeq(content, lp, next - 1))}})
                : next \in {Find(content, "\n## ", lp)}})
          : content \in {WithLinksSection(content0)},
            lp \in {Find(WithLinksSection(content0), markdown_links_section, 1)
                        + Len(markdown_links_section)}})

\* The loop of _sync_book_annotations from annotation i; st holds the
\* content, whether it was updated, the ids generated and the annotations
\* with links.
RECURSIVE SyncFrom(_, _, _)
SyncFrom(annotations, i, st) ==
    IF i > Len(annotations) THEN st
    ELSE Only({IF text = "" THEN SyncFrom(annotations, i + 1, st)
               ELSE Only({IF ~f.found THEN SyncFrom(annotations, i + 1, st)
                          ELSE Only({Only({SyncFrom(annotations, i + 1,
                                               [content |-> h.content,
                                                updated |-> st.updated \/ e.updated \/ h.updated,
                                                ids |-> IF e.updated THEN st.ids + 1 ELSE st.ids,
                                                links |-> Append(st.links, [id |-> e.id, text |-> text])])
                                           : h \in {_apply_highlighting(e.content, f.index, text,
                                                                        annotations[i].comment)}})
                                     : e \in {_ensure_block_id(st.content, f.index,
                                                               _generate_block_id(st.ids + 1))}})
                          : f \in {_find_text_in_markdown(text, st.content)}})
               : text \in {Strip(annotations[i].text)}})

-----------------------------------------------------------------------------
(* Annotation sync: state machine                                          *)

\* Most syncs in a behaviour, and most annotations in one sync.
MaxSyncs == 2
MaxBatch == 2

Annotation(t, c) == [text |-> t, comment |-> c]

\* The converted book: no anchors, no highlights.
BookMarkdown ==
    "# Dune\n\na *bold* plan by *some* folks now\n\nFear is the mind-killer, the little death.\nshort text"

\* markdown_path.relative_to(VAULT_DIR)
BookMarkdownRel == "Books/Markdowns/Dune/Dune.md"

Annotations ==
    { Annotation("a bold plan by some folks now", ""),
      Annotation("Fear is the mind killer, the little death", "the litany"),
      Annotation(" Fear is the mind-killer ", ""),
      Annotation("short text", ""),
      Annotation("nowhere in the book", "") }

Batches ==
    UNION {[1..n -> Annotations] : n \in 1..MaxBatch}

DuneLandingPage ==
    _build_landing_page_content(
        LandingMetadata(<< <<"path", S("Books/Originals/Dune.epub")>>, <<"title", S("Dune")>>,
                           <<"status", S("new")>>, <<"reading_progress", N(0)>> >>,
                        "Dune", Matched("Dune", "Dune.md")))

InitSync ==
    /\ mdFile \in {File(BookMarkdown), NoFile}
    /\ syncLanding \in {NoFile, File(DuneLandingPage)}
    /\ idCount = 0
    /\ syncs = 0

\* _sync_book_annotations(annotations, markdown_path, landing_page_path):
\* nothing without the markdown file; else every annotation is located,
\* anchored and highlighted, the file is written if it changed, and the
\* landing page gets the links.
SyncBook ==
    /\ syncs < MaxSyncs
    /\ syncs' = syncs + 1
    /\ UNCHANGED othersOfSync
    /\ IF ~mdFile.exists
       THEN UNCHANGED <<mdFile, syncLanding, idCount>>
       ELSE \E annotations \in Batches :
               \E st \in {SyncFrom(annotations, 1,
                                   [content |-> mdFile.text, updated |-> FALSE,
                                    ids |-> idCount, links |-> <<>>])} :
                   /\ mdFile' = File(st.content)
                   /\ idCount' = st.ids
                   /\ syncLanding' =
                          IF syncLanding.exists /\ st.links # <<>>
                          THEN File(_update_landing_page_links(syncLanding.text, st.links,
                                                               BookMarkdownRel).content)
                          ELSE syncLanding

NextSync == SyncBook

-----------------------------------------------------------------------------
(* Annotation sync: properties                                             *)

\* The places of the "^id" tokens of a line.
AnchorTokens(line) ==
    {k \in 1..(Len(line) - 1) : CharAt(line, k) = "^" /\ IsAlnum(CharAt(line, k + 1))}

\* C4: after any number of syncs every line of the markdown file carries at
\* most one "^id" token: a sync that resolves to an anchored line takes the
\* line's anchor and appends no other.
C4_AtMostOneAnchorPerLine ==
    mdFile.exists =>
        \A k \in 1..Len(SplitOn(mdFile.text, "\n")) :
            Cardinality(AnchorTokens(SplitOn(mdFile.text, "\n")[k])) <= 1

\* The text of the "### Direct Links to Highlights" section of a page: from
\* its heading to the next "## " heading or the end of the page
DirectLinksSection(content) ==
    Only({IF at = 0 THEN ""
          ELSE Only({SubSeq(content, at, IF next = 0 THEN Len(content) ELSE next - 1)
                     : next \in {Find(content, "\n## ", at)}})
          : at \in {Find(content, markdown_links_section, 1)}})

\* The lines of a section that are links to the anchor "^id"
LinksTo(section, id) ==
    Only({{k \in 1..Len(lines) : StartsWith(Strip(lines[k]), "- [[") /\ CaretToken(lines[k]) = id}
          : lines \in {SplitOn(section, "\n")}})

\* C28: after any sequence of syncs the "### Direct Links to Highlights"
\* section of the landing page holds at most one link for an anchor id.
C28_OneLinkPerAnchor ==
    syncLanding.exists =>
        \A id \in ExistingLinks(DirectLinksSection(syncLanding.text)) :
            Cardinality(LinksTo(DirectLinksSection(syncLanding.text), id)) <= 1

-----------------------------------------------------------------------------
(* Entity matcher: properties                                              *)

\* The candidates of a listing: its directories that hold a markdown file.
Candidates(pool) == {i \in 1..Len(pool) : pool[i].isDir /\ pool[i].files # <<>>}

\* A returned result r is the best candidate by the score function, and
\* exceeds the threshold; None means that no candidate exceeds it.
BestOrNone(r, pool, score(_)) ==
    /\ r.kind = "match" =>
          \E i \in Candidates(pool) :
              /\ pool[i].name = r.dir
              /\ FGt(score(pool[i].name), MatchThreshold)
              /\ \A j \in Candidates(pool) : FGe(score(pool[i].name), score(pool[j].name))
    /\ r.kind = "none" =>
          \A j \in Candidates(pool) : ~FGt(score(pool[j].name), MatchThreshold)

MPScoreOf(n) == WordOverlap(Stem(mQuery[1]), n)
BPScoreOf(n) == BPScore(mQuery[1], mQuery[2], n)

\* C8: whenever find_matching_markdown returns, it returns the candidate
\* with the highest score among all candidates, and only if that score
\* exceeds 0.70; it returns None only if no candidate exceeds 0.70.  (The
\* word overlap is compared where it is defined for every candidate.)
C8_ReturnsBestCandidate ==
    /\ (\A i \in Candidates(mPool) : WordOverlapDefined(Stem(mQuery[1]), mPool[i].name))
          => BestOrNone(mResult, mPool, MPScoreOf)
    /\ mQuery[1] # "" => BestOrNone(bResult, mPool, BPScoreOf)

\* C9: find_matching_markdown never raises: a call that has run has
\* returned a match or None.
C9_NeverRaises == mResult.kind # "raise" /\ bResult.kind # "raise"

ScenarioQuery == "J. K. Rowling - Harry Potter The Prequel"
ScenarioPool ==
    << Dir("Harry Potter The Prequel", <<"index.md">>),
       Dir("Quidditch Through the Ages", <<"Quidditch Through the Ages.md">>) >>

\* C10: for the query "J. K. Rowling - Harry Potter The Prequel" and the
\* directories "Harry Potter The Prequel" and "Quidditch Through the Ages",
\* a matcher that has run has selected "Harry Potter The Prequel".
C10_ScenarioSelectsPrequel ==
    (mQuery = <<ScenarioQuery, "">> /\ mPool = ScenarioPool) =>
        /\ mResult.kind # "notrun" => mResult = Matched("Harry Potter The Prequel", "index.md")
        /\ bResult.kind # "notrun" => bResult = Matched("Harry Potter The Prequel", "index.md")

-----------------------------------------------------------------------------
(* Bucket intake: FileProcessor                                            *)
(*                                                                         *)
(* disk maps a path <<directory, file name>> to what is there, [isDir,     *)
(* bytes].  The bytes of a file are a string with one character for every  *)
(* sample_size bytes.  Names are compared as a case-sensitive file system  *)
(* compares them, and Path.rename replaces an existing file, as it does on *)
(* the POSIX systems the configured paths belong to.                       *)

BucketDir == "Bucket"
OriginalsDir == "Books/Originals"
TempDir == "temp"

supported_formats == {".pdf", ".epub"}
convertible_formats ==
    {".docx", ".doc", ".rtf", ".odt", ".azw", ".azw3", ".xhtml", ".html", ".mobi"}

\* pathlib.PurePath(name).suffix for a name without a path separator
Suffix(name) ==
    IF name = "." THEN ""
    ELSE Only({IF 1 < i /\ i < Len(name) THEN SubSeq(name, i, Len(name)) ELSE ""
               : i \in {RFind(name, ".")}})

BracketChars == {"[", "]", "(", ")"}
NotBracket(c) == c \notin BracketChars
FilenameSpecialChars == {":", "\\", "/", "|", "<", ">", "*", "?", "\""}

\* re.sub(r'\s+', ' ', s)
CollapseSpaces(s0) ==
    Only({Concat([i \in 1..Len(s) |->
                    IF ~IsSpace(CharAt(s, i)) THEN CharAt(s, i)
                    ELSE IF i > 1 /\ IsSpace(CharAt(s, i - 1)) THEN "" ELSE " "],
                 1, Len(s))
          : s \in {s0}})

\* s with every character of the set chars replaced by the string by
ReplaceChars(s0, chars, by) ==
    Only({Concat([i \in 1..Len(s) |-> IF CharAt(s, i) \in chars THEN by ELSE CharAt(s, i)],
                 1, Len(s))
          : s \in {s0}})

sanitize_filename(filename) ==
    IF filename = "" THEN "untitled"
    ELSE Only({IF clean_name = "" THEN "untitled" ELSE clean_name
               : clean_name \in {Strip(CollapseSpaces(ReplaceChars(Filter(filename, NotBracket),
                                                                   FilenameSpecialChars, "-")))}})

\* --- CalibreMetadata ---

SanitizeSpecialChars == {":", "/", "*", "?", "\"", "<", ">", "|"}

\* re.sub(r'-+', '-', s)
CollapseHyphens(s0) ==
    Only({Concat([i \in 1..Len(s) |->
                    IF CharAt(s, i) # "-" THEN CharAt(s, i)
                    ELSE IF i > 1 /\ CharAt(s, i - 1) = "-" THEN "" ELSE "-"],
                 1, Len(s))
          : s \in {s0}})

\* s.strip('- ')
StripHyphenSpace(s0) ==
    Only({Only({IF ns = {} THEN "" ELSE SubSeq(s, MinOf(ns), MaxOf(ns))
                : ns \in {{i \in 1..Len(s) : CharAt(s, i) \notin {"-", " "}}}})
          : s \in {s0}})

\* The strings explored hold no null byte and no character beyond ASCII.
_sanitize_string(text) ==
    IF text = "" THEN text
    ELSE StripHyphenSpace(CollapseHyphens(ReplaceChars(Filter(text, NotBracket),
                                                       SanitizeSpecialChars, "-")))

\* re.search(rf'{calibre_field}\s+:\s*(.*)', output): <<found, the text of
\* the last group>>.  \s also runs over line ends; the last group is the
\* rest of the line reached.
FieldSearch(output, literal) ==
    Only({IF starts = {} THEN <<FALSE, "">>
          ELSE Only({<<TRUE, SubSeq(output, b, LineEnd(output, b) - 1)>>
                     : b \in {FirstNonSpace(output,
                                            FirstNonSpace(output, MinOf(starts) + Len(literal)) + 1)}})
          : starts \in {{p \in Occurrences(output, literal, 1) :
                           /\ p + Len(literal) <= Len(output)
                           /\ IsSpace(CharAt(output, p + Len(literal)))
                           /\ FirstNonSpace(output, p + Len(literal)) <= Len(output)
                           /\ CharAt(output, FirstNonSpace(output, p + Len(literal))) = ":"}}})

\* fields_to_extract as <<what the field's name matches as a regular
\* expression, group(1) when it is a group of the name itself, yaml field>>:
\* in "Author(s)" the parentheses make a group, so the pattern matches the
\* text "Authors" and its group(1) is "s".
fields_to_extract ==
    << <<"Title", "", "title">>, <<"Title sort", "", "title_sort">>,
       <<"Authors", "s", "author">>, <<"Author sort", "", "author_sort">>,
       <<"Publisher", "", "publisher">>, <<"Published", "", "published">>,
       <<"Tags", "", "tags">>, <<"Series", "", "series">>,
       <<"Series index", "", "series_index">>, <<"Rating", "", "rating">>,
       <<"Identifiers", "", "identifiers">>, <<"Languages", "", "language">>,
       <<"Comments", "", "description">> >>

RECURSIVE ExtractFields(_, _, _)
ExtractFields(output, metadata, i) ==
    IF i > Len(fields_to_extract) THEN metadata
    ELSE Only({Only({IF m[1] /\ Strip(g) # ""
                     THEN ExtractFields(output,
                                        DictSet(metadata, f[3], S(_sanitize_string(Strip(g)))),
                                        i + 1)
                     ELSE ExtractFields(output, metadata, i + 1)
                     : g \in {IF f[2] # "" THEN f[2] ELSE m[2]}})
               : m \in {FieldSearch(output, fields_to_extract[i][1])},
                 f \in {fields_to_extract[i]}})

\* datetime.datetime.now().strftime("%Y-%m-%d")
Today == "2025-01-01"

\* file_path.suffix[1:].upper(), for the suffixes explored
FormatOf(name) ==
    Only({IF s = "" THEN ""
          ELSE Concat([i \in 2..Len(s) |->
                         IF IsLower(CharAt(s, i))
                         THEN CharAt(UpperChars, Find(LowerChars, CharAt(s, i), 1))
                         ELSE CharAt(s, i)], 2, Len(s))
          : s \in {Suffix(name)}})

\* re.match(r'^(.*?)\s*-\s*', filename).group(1).strip(): the text before
\* the first hyphen
AuthorFromName(stem) ==
    Only({IF p = 0 THEN "Unknown Author" ELSE Strip(SubSeq(stem, 1, p - 1))
          : p \in {Find(stem, "-", 1)}})

\* What the ebook-meta tool does for a file: [ok, stdout], ok FALSE when
\* running it raises (tool missing, timeout).
extract_metadata(name, tool) ==
    IF ~tool.ok
    THEN << <<"path", S("Books/Originals/" \o name)>>, <<"format", S(FormatOf(name))>>,
            <<"title", S(_sanitize_string(Stem(name)))>>, <<"author", S("Unknown Author")>>,
            <<"last_opened", S(Today)>>, <<"status", S("new")>>,
            <<"reading_progress", N(0)>> >>
    ELSE Only({Only({Only({DictSet(DictSet(DictSet(m3, "last_opened", S(Today)),
                                           "status", S("new")),
                                   "reading_progress", N(0))
                           : m3 \in {IF DictHas(m2, "author") THEN m2
                                     ELSE DictSet(m2, "author", S(AuthorFromName(Stem(name))))}})
                     : m2 \in {IF ~DictHas(m1, "title") \/ Strip(DictGet(m1, "title", S(""))[2]) = ""
                               THEN DictSet(m1, "title", S(_sanitize_string(Stem(name))))
                               ELSE m1}})
               : m1 \in {DictSet(ExtractFields(Strip(tool.stdout),
                                               << <<"path", S("Books/Originals/" \o name)>> >>, 1),
                                 "format", S(FormatOf(name)))}})

\* --- publication years ---

NoYear == [known |-> FALSE, year |-> 0]
Year(y) == [known |-> TRUE, year |-> y]

IsLeap(y) == (y % 4 = 0 /\ y % 100 # 0) \/ y % 400 = 0
DaysInMonth(y, m) ==
    IF m \in {4, 6, 9, 11} THEN 30
    ELSE IF m = 2 THEN (IF IsLeap(y) THEN 29 ELSE 28)
    ELSE 31

\* The year of the date with the fields given as strings, when they form a
\* date: %Y is four digits, %m and %d one or two.
DateYear(ys, ms, ds) ==
    IF /\ Len(ys) = 4 /\ AllDigits(ys)
       /\ Len(ms) \in 1..2 /\ AllDigits(ms)
       /\ Len(ds) \in 1..2 /\ AllDigits(ds)
    THEN Only({IF y >= 1 /\ m \in 1..12 /\ d >= 1 /\ d <= DaysInMonth(y, m)
               THEN Year(y) ELSE NoYear
               : y \in {ToNat(ys, 4)}, m \in {ToNat(ms, Len(ms))}, d \in {ToNat(ds, Len(ds))}})
    ELSE NoYear

\* datetime.datetime.strptime(date_str, format_str).year, NoYear for
\* ValueError.  The strings explored hold no space-padded field.
strptime(date_str, format_str) ==
    IF format_str = "%Y"
    THEN IF Len(date_str) = 4 /\ AllDigits(date_str) /\ ToNat(date_str, 4) >= 1
         THEN Year(ToNat(date_str, 4)) ELSE NoYear
    ELSE Only({IF Len(parts) # 3 THEN NoYear
               ELSE IF format_str \in {"%Y-%m-%d", "%Y/%m/%d"}
                    THEN DateYear(parts[1], parts[2], parts[3])
               ELSE IF format_str = "%d/%m/%Y" THEN DateYear(parts[3], parts[2], parts[1])
               ELSE DateYear(parts[3], parts[1], parts[2])
               : parts \in {SplitOn(date_str, IF format_str = "%Y-%m-%d" THEN "-" ELSE "/")}})

DateFormats == <<"%Y-%m-%d", "%Y/%m/%d", "%d/%m/%Y", "%m/%d/%Y", "%Y">>

RECURSIVE TryFormats(_, _)
TryFormats(date_str, i) ==
    IF i > Len(DateFormats) THEN NoYear
    ELSE Only({IF y.known THEN y ELSE TryFormats(date_str, i + 1)
               : y \in {strptime(date_str, DateFormats[i])}})

\* re.match(r'^\d{4}-\d{2}-\d{2}$', date_str)
IsIsoDate(s) ==
    /\ Len(s) = 10
    /\ CharAt(s, 5) = "-" /\ CharAt(s, 8) = "-"
    /\ AllDigits(SubSeq(s, 1, 4)) /\ AllDigits(SubSeq(s, 6, 7)) /\ AllDigits(SubSeq(s, 9, 10))

\* int(value) for a metadata value: <<ok, number>>
IntOf(v) ==
    IF v[1] = "int" THEN <<TRUE, v[2]>>
    ELSE Only({IF t # "" /\ AllDigits(t) THEN <<TRUE, ToNat(t, Len(t))>> ELSE <<FALSE, 0>>
               : t \in {Strip(v[2])}})

InYearRange(y) == 1900 <= y /\ y <= 2100

\* re.search(r'(\d{4})', publisher): the first four digits in a row
PublisherYear(publisher) ==
    Only({IF ps = {} THEN NoYear
          ELSE Only({IF InYearRange(y) THEN Year(y) ELSE NoYear
                     : y \in {ToNat(SubSeq(publisher, MinOf(ps), MinOf(ps) + 3), 4)}})
          : ps \in {{p \in 1..(Len(publisher) - 3) : AllDigits(SubSeq(publisher, p, p + 3))}}})

YearFromPublisher(metadata) ==
    IF DictHas(metadata, "publisher") /\ Truthy(DictGet(metadata, "publisher", S("")))
    THEN IF DictGet(metadata, "publisher", S(""))[1] = "str"
         THEN PublisherYear(DictGet(metadata, "publisher", S(""))[2])
         ELSE NoYear
    ELSE NoYear

YearFromPubdate(metadata) ==
    IF DictHas(metadata, "pubdate") /\ Truthy(DictGet(metadata, "pubdate", S("")))
    THEN Only({IF v[1] # "str" THEN YearFromPublisher(metadata)
               ELSE IF IsIsoDate(v[2]) THEN Year(ToNat(SubSeq(v[2], 1, 4), 4))
               ELSE Only({IF y.known THEN y ELSE YearFromPublisher(metadata)
                          : y \in {TryFormats(v[2], 1)}})
               : v \in {DictGet(metadata, "pubdate", S(""))}})
    ELSE YearFromPublisher(metadata)

_extract_publication_year(metadata) ==
    IF metadata = <<>> THEN NoYear
    ELSE IF DictHas(metadata, "year") /\ Truthy(DictGet(metadata, "year", S("")))
    THEN Only({IF y[1] /\ InYearRange(y[2]) THEN Year(y[2]) ELSE YearFromPubdate(metadata)
               : y \in {IntOf(DictGet(metadata, "year", S("")))}})
    ELSE YearFromPubdate(metadata)

\* --- content hashes ---

sample_size == 1

NoHash == "None"
\* hashlib.md5(...).hexdigest(): different data is taken to have different
\* digests
Md5(data) == "md5:" \o data

\* What _calculate_file_hash reads of a file
Sampled(bytes) ==
    Only({SubSeq(bytes, 1, Min(sample_size, file_size))
          \o (IF file_size > sample_size * 2
              THEN SubSeq(bytes, (file_size \div 2) + 1,
                          (file_size \div 2) + Min(sample_size, file_size - (file_size \div 2)))
                   \o SubSeq(bytes, Max(0, file_size - sample_size) + 1, file_size)
              ELSE "")
          : file_size \in {Len(bytes)}})

IsFile(d, p) == p \in DOMAIN d /\ ~d[p].isDir
IsDirectory(d, p) == p \in DOMAIN d /\ d[p].isDir

\* st is [disk, file_hashes]; the result is [hash, st].
_calculate_file_hash(st, file_path) ==
    IF file_path \in DOMAIN st.file_hashes
    THEN [hash |-> st.file_hashes[file_path], st |-> st]
    ELSE IF ~IsFile(st.disk, file_path) THEN [hash |-> NoHash, st |-> st]
    ELSE Only({[hash |-> h, st |-> [st EXCEPT !.file_hashes = (file_path :> h) @@ @]]
               : h \in {Md5(Sampled(st.disk[file_path].bytes))}})

\* The result is [hashes, st].
RECURSIVE _get_existing_file_hashes(_, _)
_get_existing_file_hashes(st, files) ==
    IF files = {} THEN [hashes |-> {}, st |-> st]
    ELSE Only({Only({Only({[hashes |-> (IF h.hash # NoHash THEN {h.hash} ELSE {}) \cup rest.hashes,
                            st |-> rest.st]
                           : rest \in {_get_existing_file_hashes(h.st, files \ {f})}})
                     : h \in {_calculate_file_hash(st, f)}})
               : f \in {CHOOSE x \in files : TRUE}})

\* --- moving and converting ---

NoPath == <<>>

Without(d, p) == [q \in (DOMAIN d) \ {p} |-> d[q]]
Moved(d, src, dest) == (dest :> d[src]) @@ Without(Without(d, src), dest)

\* A search that takes the first numbered name, free or not
FirstNumberedName(d, base_name, extension, counter) ==
    base_name \o " (" \o IntToStr(counter) \o ")" \o extension

\* The first name "<base_name> (<counter>)<extension>" free in originals
RECURSIVE FreeName(_, _, _, _)
FreeName(d, base_name, extension, counter) ==
    Only({IF <<OriginalsDir, new_name>> \notin DOMAIN d THEN new_name
          ELSE FreeName(d, base_name, extension, counter + 1)
          : new_name \in {base_name \o " (" \o IntToStr(counter) \o ")" \o extension}})

\* shutil.move to a free destination, then the hash of the file there;
\* the result is [dest, st].
MoveTo(st, file_path, dest_path) ==
    Only({[dest |-> dest_path, st |-> h.st]
          : h \in {_calculate_file_hash([st EXCEPT !.disk = Moved(@, file_path, dest_path)],
                                        dest_path)}})

\* The result is [dest, st], dest NoPath for None.
move_to_originals(st, file_path) ==
    IF file_path = NoPath \/ file_path \notin DOMAIN st.disk THEN [dest |-> NoPath, st |-> st]
    ELSE Only({IF dest_path \notin DOMAIN st.disk THEN MoveTo(st, file_path, dest_path)
               ELSE Only({Only({IF src.hash = dst.hash
                                THEN [dest |-> dest_path, st |-> dst.st]
                                ELSE MoveTo(dst.st, file_path,
                                            <<OriginalsDir,
                                              FreeName(dst.st.disk, Stem(dest_path[2]),
                                                       Suffix(dest_path[2]), 1)>>)
                                : dst \in {_calculate_file_hash(src.st, dest_path)}})
                          : src \in {_calculate_file_hash(st, file_path)}})
               : dest_path \in {<<OriginalsDir, file_path[2]>>}})

\* What the conversion tools do in a run: [ok, soffice, bytes]: whether a
\* tool produces a file, whether it is LibreOffice that does (a .pdf, for
\* a document only), and the bytes produced.
NoOutput == [ok |-> FALSE, soffice |-> FALSE, bytes |-> ""]

TextSuffixes == {".txt", ".html", ".xhtml"}
DocumentSuffixes == {".docx", ".doc", ".rtf", ".odt"}
EbookSuffixes == {".azw", ".azw3", ".mobi"}

\* The result is [out, st], out NoPath for None.
_convert_file(st, name, outcome) ==
    Only({IF suffix \notin (TextSuffixes \cup DocumentSuffixes \cup EbookSuffixes) \/ ~outcome.ok
          THEN [out |-> NoPath, st |-> st]
          ELSE Only({[out |-> output_path,
                      st |-> [st EXCEPT !.disk = (output_path :> [isDir |-> FALSE,
                                                                  bytes |-> outcome.bytes])
                                                 @@ Without(@, output_path)]]
                     : output_path \in {<<TempDir,
                                          Stem(name) \o (IF suffix \in DocumentSuffixes
                                                            /\ outcome.soffice
                                                         THEN ".pdf" ELSE ".epub")>>}})
          : suffix \in {ToLower(Suffix(name))}})

\* --- one bucket file ---

\* What ebook-meta prints for a file, by the file's bytes
EbookMeta(bytes) ==
    IF bytes = "a" THEN [ok |-> TRUE, stdout |-> "Title : Dune\nPublisher : Ace (2020)\n"]
    ELSE IF bytes = "b" THEN [ok |-> TRUE, stdout |-> "Publisher : Ace 2022"]
    ELSE IF bytes = "c" THEN [ok |-> TRUE, stdout |-> ""]
    ELSE [ok |-> FALSE, stdout |-> ""]

MetadataAt(d, path) ==
    extract_metadata(path[2], IF IsFile(d, path) THEN EbookMeta(d[path].bytes)
                              ELSE [ok |-> FALSE, stdout |-> ""])

Result(status, file_info, st) == [status |-> status, info |-> file_info, st |-> st]

\* f"{file_path.stem} ({new_year}){file_path.suffix}"
EditionName(name, year) ==
    Stem(name) \o " (" \o IntToStr(year) \o ")" \o Suffix(name)

\* Lines 209-264: [skip, clean_name, existing_path].  (The look for a
\* landing page there changes nothing.)
CheckExisting(d, name, clean_name0, existing_files) ==
    IF clean_name0 \notin DOMAIN existing_files
    THEN [skip |-> FALSE, clean_name |-> clean_name0, existing_path |-> NoPath]
    ELSE Only({IF suffix = esuffix
               THEN Only({IF new_year.known /\ new_year.year # 0
                             /\ existing_year.known /\ existing_year.year # 0
                          THEN IF new_year.year > existing_year.year
                               THEN [skip |-> FALSE,
                                     clean_name |-> EditionName(name, new_year.year),
                                     existing_path |-> existing_path]
                               ELSE IF new_year.year < existing_year.year
                               THEN [skip |-> TRUE, clean_name |-> clean_name0,
                                     existing_path |-> existing_path]
                               ELSE [skip |-> FALSE, clean_name |-> clean_name0,
                                     existing_path |-> existing_path]
                          ELSE [skip |-> FALSE, clean_name |-> clean_name0,
                                existing_path |-> existing_path]
                          : new_year \in {_extract_publication_year(
                                              MetadataAt(d, <<BucketDir, name>>))},
                            existing_year \in {_extract_publication_year(
                                                   MetadataAt(d, existing_path))}})
               ELSE IF suffix \in supported_formats /\ esuffix \notin supported_formats
               THEN [skip |-> FALSE, clean_name |-> clean_name0, existing_path |-> existing_path]
               ELSE IF suffix \notin supported_formats /\ esuffix \in supported_formats
               THEN [skip |-> TRUE, clean_name |-> clean_name0, existing_path |-> existing_path]
               ELSE [skip |-> FALSE, clean_name |-> clean_name0, existing_path |-> existing_path]
               : suffix \in {ToLower(Suffix(name))},
                 esuffix \in {ToLower(Suffix(existing_files[clean_name0][2]))},
                 existing_path \in {existing_files[clean_name0]}})

\* file_path.rename(clean_path): [name, st] with the name the file goes on
\* under.  Renaming onto a directory raises OSError, which is caught.
Rename(st, name, clean_name) ==
    IF IsDirectory(st.disk, <<BucketDir, clean_name>>) THEN [name |-> name, st |-> st]
    ELSE [name |-> clean_name,
          st |-> [st EXCEPT !.disk = Moved(@, <<BucketDir, name>>, <<BucketDir, clean_name>>)]]

\* Lines 277-335: the file by its type
ProcessByType(st, name, existing_hashes, outcome) ==
    Only({IF suffix \in supported_formats
          THEN Only({IF m.dest # NoPath THEN Result("processed", m.dest, m.st)
                     ELSE Result("error", file_path, m.st)
                     : m \in {move_to_originals(st, file_path)}})
          ELSE IF suffix \in convertible_formats
          THEN Only({IF c.out = NoPath THEN Result("error", file_path, c.st)
                     ELSE Only({IF h.hash \in existing_hashes
                                THEN Result("skipped", file_path,
                                            [h.st EXCEPT !.disk = Without(@, c.out)])
                                ELSE Only({IF m.dest # NoPath
                                           THEN Result("converted", m.dest, m.st)
                                           ELSE Result("error", file_path,
                                                       [m.st EXCEPT !.disk = Without(@, c.out)])
                                           : m \in {move_to_originals(h.st, c.out)}})
                                : h \in {_calculate_file_hash(c.st, c.out)}})
                     : c \in {_convert_file(st, name, outcome)}})
          ELSE Result("skipped", file_path, st)
          : suffix \in {ToLower(Suffix(name))}, file_path \in {<<BucketDir, name>>}})

\* The result is [status, info, st].  Every file is taken to be readable.
_process_single_file(st, name, existing_files, existing_hashes, outcome) ==
    Only({IF IsDirectory(st.disk, file_path) THEN Result("skipped", file_path, st)
          ELSE IF file_path \notin DOMAIN st.disk THEN Result("error", file_path, st)
          ELSE Only({IF h.hash \in existing_hashes THEN Result("skipped", file_path, h.st)
                     ELSE Only({IF e.skip THEN Result("skipped", e.existing_path, h.st)
                                ELSE Only({ProcessByType(r.st, r.name, existing_hashes, outcome)
                                           : r \in {IF name # e.clean_name
                                                    THEN Rename(h.st, name, e.clean_name)
                                                    ELSE [name |-> name, st |-> h.st]}})
                                : e \in {CheckExisting(h.st.disk, name, sanitize_filename(name),
                                                       existing_files)}})
                     : h \in {_calculate_file_hash(st, file_path)}})
          : file_path \in {<<BucketDir, name>>}})

\* --- process_bucket ---

NamesIn(d, dir) == {p[2] : p \in {q \in DOMAIN d : q[1] = dir}}
OriginalsOf(d) == {p \in DOMAIN d : p[1] = OriginalsDir}

\* existing_files: the supported files of originals, name -> path
ExistingFiles(d) ==
    [n \in {m \in NamesIn(d, OriginalsDir) :
              IsFile(d, <<OriginalsDir, m>>) /\ ToLower(Suffix(m)) \in supported_formats}
       |-> <<OriginalsDir, n>>]

\* The loop over bucket_files from its i-th file on; results holds, for
\* every file handled, [file, status, info, gained]: gained is what came
\* into originals while the file was handled.
RECURSIVE ProcessFrom(_, _, _, _, _, _, _)
ProcessFrom(st, bucket_files, i, existing_files, existing_hashes, outcome, results) ==
    IF i > Len(bucket_files) THEN [st |-> st, results |-> results]
    ELSE Only({ProcessFrom(r.st, bucket_files, i + 1, existing_files, existing_hashes, outcome,
                           Append(results,
                                  [file |-> bucket_files[i], status |-> r.status,
                                   info |-> r.info,
                                   gained |-> OriginalsOf(r.st.disk) \ OriginalsOf(st.disk)]))
               : r \in {_process_single_file(st, bucket_files[i], existing_files,
                                             existing_hashes, outcome)}})

\* bucket_files is the bucket's listing, in the order glob gives it.  The
\* result is [st, results].
process_bucket(st, bucket_files, outcome) ==
    Only({Only({ProcessFrom(eh.st, bucket_files, 1, existing_files, eh.hashes, outcome, <<>>)
                : eh \in {_get_existing_file_hashes(st, {existing_files[n]
                                                         : n \in DOMAIN existing_files})}})
          : existing_files \in {ExistingFiles(st.disk)}})

\* The paths process_bucket returns: processed_files
IsProcessed(r) == r.status \in {"processed", "converted"}
ProcessedFiles(results) ==
    Only({[i \in 1..Len(done) |-> done[i].info] : done \in {SelectSeq(results, IsProcessed)}})

-----------------------------------------------------------------------------
(* Bucket intake: the state machine                                        *)

MaxBucketRuns == 2
MaxBucket == 2
MaxOriginals == 2

Entry(dir, name, bytes) == [path |-> <<dir, name>>, isDir |-> FALSE, bytes |-> bytes]

BucketEntries ==
    { Entry(BucketDir, "Thinking Fast and Slow - Daniel Kahneman.pdf", "c"),
      Entry(BucketDir, "Thinking, Fast and Slow.pdf", "c"),
      Entry(BucketDir, "Dune.pdf", "a"),
      Entry(BucketDir, "Dune.pdf", "b"),
      Entry(BucketDir, "Dune.pdf", "ad"),
      Entry(BucketDir, "(Dune).pdf", "a"),
      Entry(BucketDir, "(Dune).pdf", "b"),
      Entry(BucketDir, "Dune.mobi", "c"),
      [path |-> <<BucketDir, "Inbox">>, isDir |-> TRUE, bytes |-> ""] }

OriginalsEntries ==
    { Entry(OriginalsDir, "Dune.pdf", "a"),
      Entry(OriginalsDir, "Dune.pdf", "b"),
      Entry(OriginalsDir, "Dune.pdf", "c"),
      Entry(OriginalsDir, "Old.pdf", "a"),
      Entry(OriginalsDir, "Dune (2022).pdf", "c") }

\* The directories holding the entries of the set es (of different paths)
DiskOf(es) ==
    [p \in {e.path : e \in es} |->
       Only({[isDir |-> e.isDir, bytes |-> e.bytes] : e \in {x \in es : x.path = p}})]

DifferentPaths(es) == \A e, f \in es : e.path = f.path => e = f

ConvertOutcomes ==
    { NoOutput,
      [ok |-> TRUE, soffice |-> FALSE, bytes |-> "a"],
      [ok |-> TRUE, soffice |-> FALSE, bytes |-> "e"] }

\* The orders glob may list the names of the set names in
Orders(names) ==
    {q \in [1..Cardinality(names) -> names] : \A i, j \in DOMAIN q : q[i] = q[j] => i = j}

NoBucketRun == [runs |-> 0, before |-> <<>>, results |-> <<>>]

InitBucket ==
    /\ \E bs \in SUBSET BucketEntries, os \in SUBSET OriginalsEntries :
          /\ Cardinality(bs) <= MaxBucket
          /\ Cardinality(os) <= MaxOriginals
          /\ DifferentPaths(bs)
          /\ DifferentPaths(os)
          /\ disk = DiskOf(bs \cup os)
    /\ file_hashes = <<>>
    /\ bucketRun = NoBucketRun

\* FileProcessor.process_bucket, on the FileProcessor there is
ProcessBucket ==
    /\ bucketRun.runs < MaxBucketRuns
    /\ \E bucket_files \in Orders(NamesIn(disk, BucketDir)) :
          \E outcome \in (IF \E n \in NamesIn(disk, BucketDir) :
                                ToLower(Suffix(n)) \in convertible_formats
                           THEN ConvertOutcomes ELSE {NoOutput}) :
            \E r \in {process_bucket([disk |-> disk, file_hashes |-> file_hashes],
                                     bucket_files, outcome)} :
              /\ disk' = r.st.disk
              /\ file_hashes' = r.st.file_hashes
              /\ bucketRun' = [runs |-> bucketRun.runs + 1, before |-> disk,
                               results |-> r.results]
    /\ UNCHANGED othersOfBucket

\* FileProcessor.__init__: the program is started again
NewFileProcessor ==
    /\ bucketRun.runs > 0
    /\ file_hashes # <<>>
    /\ file_hashes' = <<>>
    /\ UNCHANGED <<disk, bucketRun>>
    /\ UNCHANGED othersOfBucket

NextBucket == ProcessBucket \/ NewFileProcessor

-----------------------------------------------------------------------------
(* Bucket intake: properties                                               *)

\* The files the bucket held when the last run started
BucketFilesBefore ==
    {p \in DOMAIN bucketRun.before : p[1] = BucketDir /\ ~bucketRun.before[p].isDir}

\* The originals files of the disk d that hold the bytes b
OriginalsHolding(d, b) == {o \in OriginalsOf(d) : ~d[o].isDir /\ d[o].bytes = b}

ResultsFor(name) ==
    {bucketRun.results[i] : i \in {k \in 1..Len(bucketRun.results) :
                                      bucketRun.results[k].file = name}}

\* C5: two byte-identical files that are both in the bucket during one
\* process_bucket run, neither yet in originals, end as a single originals
\* entry: one of them is moved, the other is skipped as a content-hash
\* duplicate, and originals never holds two files with those bytes.
C5_IdenticalBucketFilesOneEntry ==
    bucketRun.runs > 0 =>
        \A p, q \in BucketFilesBefore :
            ( /\ p # q
              /\ bucketRun.before[p].bytes = bucketRun.before[q].bytes
              /\ OriginalsHolding(bucketRun.before, bucketRun.before[p].bytes) = {} )
            => /\ Cardinality(OriginalsHolding(disk, bucketRun.before[p].bytes)) <= 1
               /\ \E r \in ResultsFor(p[2]) \cup ResultsFor(q[2]) : r.status = "skipped"

\* C6: a bucket file whose bytes are those of a supported file that is in
\* originals when process_bucket starts gets the status skipped for its own
\* path, whatever its name, and nothing comes into originals through it.
C6_KnownContentIsSkipped ==
    bucketRun.runs > 0 =>
        \A p \in BucketFilesBefore :
            (\E n \in DOMAIN ExistingFiles(bucketRun.before) :
                 bucketRun.before[<<OriginalsDir, n>>].bytes = bucketRun.before[p].bytes)
            => \A r \in ResultsFor(p[2]) :
                   r.status = "skipped" /\ r.info = p /\ r.gained = {}

\* The publication year of the file at a path when the last run started
YearBefore(path) == _extract_publication_year(MetadataAt(bucketRun.before, path))

\* The bucket files of the last run that collide with an originals file on
\* sanitized name and format, with other bytes and another, known, year
EditionCollisions ==
    {p \in BucketFilesBefore :
        /\ sanitize_filename(p[2]) \in DOMAIN ExistingFiles(bucketRun.before)
        /\ ToLower(Suffix(p[2])) = ToLower(Suffix(sanitize_filename(p[2])))
        /\ bucketRun.before[p].bytes
              # bucketRun.before[<<OriginalsDir, sanitize_filename(p[2])>>].bytes
        /\ YearBefore(p).known
        /\ YearBefore(<<OriginalsDir, sanitize_filename(p[2])>>).known
        /\ YearBefore(p).year # YearBefore(<<OriginalsDir, sanitize_filename(p[2])>>).year}

\* C7: when a bucket file and an originals file collide on sanitized name
\* and format, with different content and different known years, then
\* after process_bucket the later-year copy is the one originals retains,
\* under "<title> (<year>)" (the title being the stem of its name, sanitized
\* or not) when it is the incoming file, and the
\* earlier-year copy is not retained, whichever of the two was there first.
C7_LaterEditionRetained ==
    bucketRun.runs > 0 =>
        \A p \in EditionCollisions :
            LET o == <<OriginalsDir, sanitize_filename(p[2])>>
                newBytes == bucketRun.before[p].bytes
                oldBytes == bucketRun.before[o].bytes
            IN  IF YearBefore(p).year > YearBefore(o).year
                THEN /\ \E n \in {EditionName(p[2], YearBefore(p).year),
                                   EditionName(o[2], YearBefore(p).year)} :
                           <<OriginalsDir, n>> \in OriginalsHolding(disk, newBytes)
                     /\ OriginalsHolding(disk, oldBytes) = {}
                ELSE /\ o \in OriginalsHolding(disk, oldBytes)
                     /\ OriginalsHolding(disk, newBytes) = {}
                     /\ \A r \in ResultsFor(p[2]) : r.status = "skipped"

\* The bucket files of the last run that collide with an originals file on
\* sanitized name and format, with other bytes, the two years not both
\* known or equal
VariantCollisions ==
    {p \in BucketFilesBefore :
        /\ sanitize_filename(p[2]) \in DOMAIN ExistingFiles(bucketRun.before)
        /\ ToLower(Suffix(p[2])) = ToLower(Suffix(sanitize_filename(p[2])))
        /\ bucketRun.before[p].bytes
              # bucketRun.before[<<OriginalsDir, sanitize_filename(p[2])>>].bytes
        /\ \/ ~YearBefore(p).known
           \/ ~YearBefore(<<OriginalsDir, sanitize_filename(p[2])>>).known
           \/ YearBefore(p).year = YearBefore(<<OriginalsDir, sanitize_filename(p[2])>>).year}

\* C24: when a bucket file collides with an originals file on sanitized
\* name and format, with different content and the publication years
\* unavailable or equal, both are kept: after process_bucket the originals
\* file is as it was and the incoming file's content is in originals under
\* another name.
C24_VariantsBothKept ==
    bucketRun.runs > 0 =>
        \A p \in VariantCollisions :
            LET o == <<OriginalsDir, sanitize_filename(p[2])>>
            IN  /\ o \in DOMAIN disk
                /\ disk[o] = bucketRun.before[o]
                /\ OriginalsHolding(disk, bucketRun.before[p].bytes) \ {o} # {}

\* The files of the disk d, in the bucket or in originals, that hold the
\* bytes b
Holding(d, b) ==
    {q \in DOMAIN d : q[1] \in {BucketDir, OriginalsDir} /\ ~d[q].isDir /\ d[q].bytes = b}

\* C25: the content of every regular file that is in the bucket when
\* process_bucket starts is, after the run, still in a file of the bucket
\* or of originals; the rename to the sanitized name inside the bucket
\* replaces no other bucket file.
C25_NoContentDestroyed ==
    bucketRun.runs > 0 =>
        \A p \in BucketFilesBefore : Holding(disk, bucketRun.before[p].bytes) # {}

-----------------------------------------------------------------------------
(* Whole runs: BookProcessor.process_books                                 *)

NoWorld == [convert |-> NoOutput]
NoProcessBooksRun ==
    [runs |-> 0, indexWritten |-> FALSE, indexed |-> <<>>, entries |-> <<>>,
     landingBefore |-> <<>>, annotsBefore |-> <<>>, originalsBefore |-> {}]
NoSyncRun == [runs |-> 0, raised |-> FALSE, handled |-> <<>>, titles |-> <<>>]

\* The printable ASCII characters in the order of their codes
AsciiChars ==
    " !\"#$%&'()*+,-./0123456789:;<=>?@ABCDEFGHIJKLMNOPQRSTUVWXYZ[\\]^_'abcdefghijklmnopqrstuvwxyz{|}~"

\* ord(c), up to an offset
Ord(c) == Find(AsciiChars, c, 1)

\* a < b as Python compares strings
RECURSIVE StrLessFrom(_, _, _)
StrLessFrom(a, b, i) ==
    IF i > Len(b) THEN FALSE
    ELSE IF i > Len(a) THEN TRUE
    ELSE IF CharAt(a, i) # CharAt(b, i) THEN Ord(CharAt(a, i)) < Ord(CharAt(b, i))
    ELSE StrLessFrom(a, b, i + 1)

StrLess(a, b) == StrLessFrom(a, b, 1)

Max2(x, y) == IF x >= y THEN x ELSE y

\* One row of the longest-common-subsequence table: cur holds the cells
\* 1..j-1 of row i, prev the row before it
RECURSIVE LCSCells(_, _, _, _, _, _)
LCSCells(a, b, i, prev, j, cur) ==
    IF j > Len(b) THEN cur
    ELSE Only({LCSCells(a, b, i, prev, j + 1, Append(cur, cell))
               : cell \in {IF CharAt(a, i) = CharAt(b, j)
                           THEN (IF j = 1 THEN 0 ELSE prev[j - 1]) + 1
                           ELSE Max2(prev[j], IF j = 1 THEN 0 ELSE cur[j - 1])}})

RECURSIVE LCSRows(_, _, _, _)
LCSRows(a, b, i, prev) ==
    IF i > Len(a) THEN prev
    ELSE Only({LCSRows(a, b, i + 1, row) : row \in {LCSCells(a, b, i, prev, 1, <<>>)}})

\* The length of the longest common subsequence of a and b
LCS(a, b) ==
    IF a = "" \/ b = "" THEN 0
    ELSE LCSRows(a, b, 1, [j \in 1..Len(b) |-> 0])[Len(b)]

\* rapidfuzz.fuzz.ratio(a, b): the normalized Indel similarity, 0..100
fuzz_ratio(a, b) ==
    IF a = "" /\ b = "" THEN <<100, 1>> ELSE Frac(200 * LCS(a, b), Len(a) + Len(b))

IndexFileName == "Book Index.md"
LandingDirRel == "Books"

EndsWith(s, suffix) ==
    Len(s) >= Len(suffix) /\ SubSeq(s, Len(s) - Len(suffix) + 1, Len(s)) = suffix

\* re.search(key + r': "(.*?)"', content): [found, value]; the value is on
\* one line and ends at the first double quote
RECURSIVE QuotedField(_, _, _)
QuotedField(content, key, from) ==
    Only({IF p = 0 THEN [found |-> FALSE, value |-> ""]
          ELSE Only({IF q # 0 /\ (nl = 0 \/ q < nl)
                     THEN [found |-> TRUE, value |-> SubSeq(content, p + Len(key) + 3, q - 1)]
                     ELSE QuotedField(content, key, p + 1)
                     : q \in {Find(content, "\"", p + Len(key) + 3)},
                       nl \in {Find(content, "\n", p + Len(key) + 3)}})
          : p \in {Find(content, key \o ": \"", from)}})

\* LANDING_DIR.glob("*.md") without the index file, in the order listed
LandingPageNames(landing) == {n \in DOMAIN landing : EndsWith(n, ".md") /\ n # IndexFileName}

\* existing_metadata: for each landing page [stem, title, author], title
\* and author read from the page's text
ExistingMetadata(landing, listing) ==
    [i \in 1..Len(listing) |->
        Only({[stem |-> Stem(listing[i]),
               title |-> IF t.found THEN t.value ELSE Stem(listing[i]),
               author |-> IF a.found THEN a.value ELSE "Unknown"]
              : t \in {QuotedField(landing[listing[i]], "title", 1)},
                a \in {QuotedField(landing[listing[i]], "author", 1)}})]

DuplicateThreshold == <<85, 1>>

\* combined_score of _find_duplicate_by_metadata for one existing page;
\* title and author are lowered and stripped
CombinedScore(title, author, existing_title, existing_author) ==
    Only({Only({IF FGt(title_score, <<95, 1>>)
                THEN FMax(combined, FMul(title_score, <<9, 10>>))
                ELSE combined
                : combined \in
                    {IF existing_author # "" /\ author # ""
                     THEN IF FGt(title_score, <<60, 1>>)
                          THEN FAdd(FMul(title_score, <<7, 10>>),
                                    FMul(fuzz_ratio(author, existing_author), <<3, 10>>))
                          ELSE title_score
                     ELSE IF FGt(title_score, <<90, 1>>) THEN title_score ELSE FZero}})
          : title_score \in {fuzz_ratio(title, existing_title)}})

\* The loop of _find_duplicate_by_metadata from page i: best is
\* [score, stem], stem "" for no match yet
RECURSIVE DuplicateFrom(_, _, _, _, _)
DuplicateFrom(title, author, existing, i, best) ==
    IF i > Len(existing) THEN best
    ELSE Only({IF et = "" THEN DuplicateFrom(title, author, existing, i + 1, best)
               ELSE Only({IF FGt(sc, best.score) /\ FGe(sc, DuplicateThreshold)
                          THEN DuplicateFrom(title, author, existing, i + 1,
                                             [score |-> sc, found |-> TRUE, stem |-> existing[i].stem])
                          ELSE DuplicateFrom(title, author, existing, i + 1, best)
                          : sc \in {CombinedScore(title, author, et,
                                                  Strip(ToLower(existing[i].author)))}})
               : et \in {Strip(ToLower(existing[i].title))}})

\* BookProcessor._find_duplicate_by_metadata: [found, stem] of the landing page
_find_duplicate_by_metadata(title, author, existing) ==
    IF title = "" \/ author = "" \/ existing = <<>>
    THEN [score |-> FZero, found |-> FALSE, stem |-> ""]
    ELSE DuplicateFrom(Strip(ToLower(title)), Strip(ToLower(author)), existing, 1,
                       [score |-> FZero, found |-> FALSE, stem |-> ""])

\* metadata with the matched markdown directory and file, as process_books
\* and create_landing_page both store them
WithMarkdownMatch(md, match) ==
    IF match.kind = "match"
    THEN DictSet(DictSet(md, "markdown_path", S(MarkdownDirRel \o "/" \o match.dir)),
                 "markdown_file", S(MarkdownDirRel \o "/" \o match.dir \o "/" \o match.file))
    ELSE md

\* MarkdownProcessor.create_landing_page(metadata) on the files fs =
\* [books, annots]: [books, annots, ok, title, metadata].  Without an
\* ANNOTATION_DIR the annotation document raises before anything is written;
\* a matcher that raises does so after the annotation document is written.
create_landing_page(fs, md, pool, annotationDir) ==
    IF ~annotationDir
    THEN [books |-> fs.books, annots |-> fs.annots, ok |-> FALSE,
          title |-> Str(DictGet(md, "title", S(""))), metadata |-> md]
    ELSE Only({Only({Only({IF match.kind = "raise"
                           THEN [books |-> fs.books, annots |-> stubs, ok |-> FALSE,
                                 title |-> Str(DictGet(md, "title", S(""))),
                                 metadata |-> DictSet(md, "annotation_path",
                                                      S(AnnotationDirRel \o "/" \o safe_title
                                                          \o " - Annotations.md"))]
                           ELSE [books |-> WriteFile(fs.books, safe_title \o ".md",
                                                     _build_landing_page_content(
                                                         LandingMetadata(md, safe_title, match))),
                                 annots |-> stubs, ok |-> TRUE, title |-> safe_title,
                                 metadata |-> LandingMetadata(md, safe_title, match)]
                           : match \in {MarkdownProcessor_find_matching_markdown(
                                            Str(DictGet(md, "title", S(""))), pool)}})
                     : stubs \in {WriteFile(fs.annots, safe_title \o " - Annotations.md",
                                            AnnotationContent(md, safe_title,
                                                ReadFile(fs.annots, safe_title \o " - Annotations.md")))}})
               : safe_title \in {SafeTitle(Str(DictGet(md, "title", S(""))))}})

\* An entry of the index: <<title, metadata>>
EntryTitle(e) == e[1]
EntryAuthor(e) == Str(DictGet(e[2], "author", S("Unknown Author")))
EntryFormat(e) == Str(DictGet(e[2], "format", S("Unknown")))

\* sorted(entries, key=lambda x: x[0].lower()): a stable sort
RECURSIVE InsertByTitle(_, _)
InsertByTitle(sorted, e) ==
    IF sorted = <<>> THEN <<e>>
    ELSE IF StrLess(ToLower(EntryTitle(e)), ToLower(EntryTitle(sorted[Len(sorted)])))
         THEN Append(InsertByTitle(SubSeq(sorted, 1, Len(sorted) - 1), e), sorted[Len(sorted)])
         ELSE Append(sorted, e)

RECURSIVE SortByTitle(_)
SortByTitle(entries) ==
    IF entries = <<>> THEN <<>>
    ELSE InsertByTitle(SortByTitle(SubSeq(entries, 1, Len(entries) - 1)), entries[Len(entries)])

\* sorted(authors.keys())
RECURSIVE SortedStrings(_)
SortedStrings(names) ==
    IF names = {} THEN <<>>
    ELSE Only({<<m>> \o SortedStrings(names \ {m})
               : m \in {CHOOSE x \in names : \A y \in names \ {x} : StrLess(x, y)}})

IndexHeader ==
    << "# Book Library Index",
       "\nThis is an automatically generated index of all books in the library.\n",
       "## Current Reading",
       "\n'''dataview",
       "TABLE author, format, reading_progress as \"Progress\", last_opened as \"Last Opened\"",
       "FROM #book",
       "WHERE status = \"current\"",
       "SORT last_opened DESC",
       "'''\n",
       "## Next Up",
       "\n'''dataview",
       "TABLE author, format",
       "FROM #book",
       "WHERE status = \"next\"",
       "'''\n",
       "## Books by Title\n" >>

\* The lines of one author's section
AuthorSection(author, entries) ==
    Only({<<"### " \o author \o "\n">>
            \o [i \in 1..Len(own) |->
                  "- [[Books/" \o EntryTitle(own[i]) \o ".md|" \o EntryTitle(own[i])
                      \o " (" \o EntryFormat(own[i]) \o ")]]"]
            \o <<"">>
          : own \in {SortByTitle(SelectSeq(entries,
                          LAMBDA e : DictHas(e[2], "author")
                                       /\ Str(DictGet(e[2], "author", S(""))) = author))}})

RECURSIVE AuthorSections(_, _, _)
AuthorSections(authors, i, entries) ==
    IF i > Len(authors) THEN <<>>
    ELSE AuthorSection(authors[i], entries) \o AuthorSections(authors, i + 1, entries)

\* The text IndexProcessor.create_index builds for the entries
IndexContent(entries) ==
    Only({Only({Join(IndexHeader
                     \o [i \in 1..Len(sorted) |->
                           "- [[Books/" \o EntryTitle(sorted[i]) \o ".md|" \o EntryTitle(sorted[i])
                               \o " - " \o EntryAuthor(sorted[i])
                               \o " (" \o EntryFormat(sorted[i]) \o ")]]"]
                     \o (IF authors = {} THEN <<>>
                         ELSE <<"\n## Books by Author\n">>
                                  \o AuthorSections(SortedStrings(authors), 1, entries)),
                     "\n")
                : authors \in {{Str(DictGet(entries[i][2], "author", S(""))) :
                                  i \in {k \in 1..Len(entries) : DictHas(entries[k][2], "author")}}}})
          : sorted \in {SortByTitle(entries)}})

\* IndexProcessor.create_index(book_entries) on the landing directory:
\* [books, written].  Nothing for no entries; without a BOOKS_DIR the write
\* raises and the caller logs it.
create_index(landing, entries, booksDir) ==
    IF entries = <<>> \/ ~booksDir
    THEN [books |-> landing, written |-> FALSE]
    ELSE [books |-> WriteFile(landing, IndexFileName, IndexContent(entries)), written |-> TRUE]

\* book_files: the supported files of originals that have no landing page
\* of their own stem, in the order listed
BookFiles(d, listing, existing) ==
    SelectSeq(listing,
              LAMBDA n : /\ ~d[<<OriginalsDir, n>>].isDir
                         /\ ToLower(Suffix(n)) \in supported_formats
                         /\ \A i \in 1..Len(existing) : existing[i].stem # Stem(n))

\* The metadata loop of process_books: for each book file
\* [file, title, metadata], the metadata naming the landing page the book
\* duplicates, if one is found
BookEntries(d, book_files, existing) ==
    [i \in 1..Len(book_files) |->
        Only({Only({[file |-> book_files[i],
                     title |-> Str(DictGet(md, "title", S(Stem(book_files[i])))),
                     metadata |->
                        IF dup.found
                        THEN DictSet(DictSet(md, "existing_landing_page",
                                             S(LandingDirRel \o "/" \o dup.stem \o ".md")),
                                     "duplicate_of", S(dup.stem))
                        ELSE md,
                     duplicate_of |-> dup]
                    : dup \in {_find_duplicate_by_metadata(
                                   Str(DictGet(md, "title", S(Stem(book_files[i])))),
                                   Str(DictGet(md, "author", S("Unknown"))), existing)}})
              : md \in {MetadataAt(d, <<OriginalsDir, book_files[i]>>)}})]

\* The landing-page loop of process_books from entry i: st holds the
\* files, processed_entries and, for each book, what became of it
RECURSIVE LandingPagesFrom(_, _, _, _, _)
LandingPagesFrom(book_entries, i, st, pool, annotationDir) ==
    IF i > Len(book_entries) THEN st
    ELSE IF book_entries[i].duplicate_of.found
         THEN LandingPagesFrom(book_entries, i + 1,
                  [st EXCEPT !.processed = Append(@, <<book_entries[i].duplicate_of.stem,
                                                       book_entries[i].metadata>>),
                             !.log = Append(@, [file |-> book_entries[i].file,
                                                title |-> book_entries[i].title,
                                                resolved |-> TRUE, created |-> FALSE])],
                  pool, annotationDir)
         ELSE Only({Only({LandingPagesFrom(book_entries, i + 1,
                              [books |-> r.books, annots |-> r.annots,
                               processed |-> Append(st.processed, <<r.title, r.metadata>>),
                               log |-> Append(st.log, [file |-> book_entries[i].file,
                                                       title |-> book_entries[i].title,
                                                       resolved |-> FALSE, created |-> r.ok])],
                              pool, annotationDir)
                          : r \in {create_landing_page([books |-> st.books, annots |-> st.annots],
                                                       WithMarkdownMatch(book_entries[i].metadata, match),
                                                       pool, annotationDir)}})
                    : match \in {MarkdownProcessor_find_matching_markdown(book_entries[i].title, pool)}})

\* The entries of the existing landing pages not named by an entry yet
ExistingEntries(existing, named) ==
    Only({[i \in 1..Len(rest) |->
              <<rest[i].stem, << <<"title", S(rest[i].title)>>, <<"author", S(rest[i].author)>>,
                                 <<"has_landing_page", N(1)>> >> >>]
          : rest \in {SelectSeq(existing, LAMBDA x : x.stem \notin named)}})

\* process_books after the bucket was processed: d is the disk and
\* processed_files what process_bucket returned; the result is
\* [books, annots, indexWritten, indexed, log], indexed being the entries
\* the index was written from
ProcessBooksFrom(d, processed_files, fs, originals_listing, landing_listing, pool, annotationDir, booksDir) ==
    Only({Only({IF book_entries = <<>>
                THEN IF processed_files # <<>>
                     THEN Only({[books |-> ix.books, annots |-> fs.annots,
                                 indexWritten |-> ix.written,
                                 indexed |-> IF ix.written THEN ExistingEntries(existing, {})
                                             ELSE <<>>,
                                 log |-> <<>>]
                                : ix \in {create_index(fs.books, ExistingEntries(existing, {}),
                                                       booksDir)}})
                     ELSE [books |-> fs.books, annots |-> fs.annots,
                           indexWritten |-> FALSE, indexed |-> <<>>, log |-> <<>>]
                ELSE Only({Only({Only({[books |-> ix.books, annots |-> st.annots,
                                        indexWritten |-> ix.written,
                                        indexed |-> IF ix.written THEN all_entries ELSE <<>>,
                                        log |-> st.log]
                                       : ix \in {create_index(st.books, all_entries, booksDir)}})
                                 : all_entries \in
                                     {st.processed
                                        \o ExistingEntries(existing,
                                               {st.processed[k][1] : k \in 1..Len(st.processed)})}})
                           : st \in {LandingPagesFrom(book_entries, 1,
                                                      [books |-> fs.books, annots |-> fs.annots,
                                                       processed |-> <<>>, log |-> <<>>],
                                                      pool, annotationDir)}})
                : book_entries \in {BookEntries(d, BookFiles(d, originals_listing, existing),
                                                existing)}})
          : existing \in {ExistingMetadata(fs.books, landing_listing)}})

-----------------------------------------------------------------------------
(* Whole runs: AnnotationSyncer.sync_annotations                           *)

\* sub in s, as Python's operator has it: the empty string is in every string
PyIn(sub, s) == sub = "" \/ Contains(s, sub)

\* re.sub(r'[^\w\s]', '', s).strip()
CleanTitle(s) == Strip(Filter(s, IsWordOrSpace))

\* MARKDOWN_DIR.glob("**/*.md"): the markdown files of the directory itself,
\* then those of its subdirectories, as <<directory, file>>
RECURSIVE DirMarkdownFiles(_, _)
DirMarkdownFiles(pool, i) ==
    IF i > Len(pool) THEN <<>>
    ELSE (IF pool[i].isDir
          THEN [k \in 1..Len(pool[i].files) |-> <<pool[i].name, pool[i].files[k]>>]
          ELSE <<>>)
         \o DirMarkdownFiles(pool, i + 1)

MarkdownFiles(pool) ==
    Only({[k \in 1..Len(top) |-> <<"", top[k].name>>] \o DirMarkdownFiles(pool, 1)
          : top \in {SelectSeq(pool, LAMBDA e : ~e.isDir /\ EndsWith(e.name, ".md"))}})

\* _find_markdown_for_book(book_title): the first markdown file of the first
\* directory whose name holds the title, else the first markdown file whose
\* cleaned stem holds the cleaned title or is held by it, else None
_find_markdown_for_book(book_title, pool) ==
    Only({IF dirs # <<>> THEN <<dirs[1].name, dirs[1].files[1]>>
          ELSE Only({Only({IF hits # <<>> THEN hits[1] ELSE NoPath
                           : hits \in {SelectSeq(MarkdownFiles(pool),
                                          LAMBDA f : Only({PyIn(clean_title, clean_file_name)
                                                             \/ PyIn(clean_file_name, clean_title)
                                                           : clean_file_name \in
                                                               {ToLower(CleanTitle(Stem(f[2])))}}))}})
                     : clean_title \in {ToLower(CleanTitle(book_title))}})
          : dirs \in {SelectSeq(pool, LAMBDA e : /\ e.isDir
                                                 /\ Contains(ToLower(e.name), ToLower(book_title))
                                                 /\ e.files # <<>>)}})

\* markdown_path.relative_to(VAULT_DIR), MARKDOWN_DIR being Books/Markdowns
MarkdownRel(path) ==
    "Books/Markdowns/" \o (IF path[1] = "" THEN "" ELSE path[1] \o "/") \o path[2]

\* os.stat of a name longer than the 255 bytes a file system allows a name
\* fails with ENAMETOOLONG, an OSError Path.exists() does not turn into
\* False (it does so for ENOENT, ENOTDIR, EBADF and ELOOP only)
NameTooLong(name) == Len(name) > 255

\* The score _find_landing_page_for_book gives a landing page: the better of
\* the SequenceMatcher ratios of the cleaned title with the cleaned file
\* stem and with the page's title field, raised to 0.7 * ratio + 0.3 of the
\* common words when more than two words are common and the score is under
\* 0.8
LandingScore(clean_title, stem, content) ==
    Only({Only({Only({IF common > 2 /\ FLt(score, <<4, 5>>)
                      THEN FMax(score,
                                FAdd(FMul(<<7, 10>>,
                                          Frac(common, Max(Cardinality(words1), Cardinality(words2)))),
                                     <<3, 10>>))
                      ELSE score
                      : common \in {Cardinality(words1 \cap words2)}})
                : score \in {FMax(ratio(clean_title, clean_filename),
                                  IF title_match.found
                                  THEN ratio(clean_title,
                                             ToLower(CleanTitle(Strip(title_match.value))))
                                  ELSE FZero)},
                  words1 \in {SplitSet(clean_title)},
                  words2 \in {SplitSet(clean_filename)}})
          : clean_filename \in {ToLower(CleanTitle(stem))},
            title_match \in {QuotedField(content, "title", 1)}})

\* The fuzzy loop of _find_landing_page_for_book from page i of the listing:
\* the first page with the best score above 0.7, "" when there is none
RECURSIVE BestLandingFrom(_, _, _, _, _, _)
BestLandingFrom(clean_title, landing, listing, i, best_match, best_score) ==
    IF i > Len(listing) THEN best_match
    ELSE Only({IF FGt(score, best_score) /\ FGt(score, <<7, 10>>)
               THEN BestLandingFrom(clean_title, landing, listing, i + 1, listing[i], score)
               ELSE BestLandingFrom(clean_title, landing, listing, i + 1, best_match, best_score)
               : score \in {LandingScore(clean_title, Stem(listing[i]), landing[listing[i]])}})

\* _find_landing_page_for_book(book_title): [raised, name]; name is "" for
\* None.  The page named after the title if it exists, else the best fuzzy
\* match; the existence test raises for a name the file system refuses
_find_landing_page_for_book(book_title, landing, listing) ==
    IF NameTooLong(book_title \o ".md") THEN [raised |-> TRUE, name |-> ""]
    ELSE IF (book_title \o ".md") \in DOMAIN landing
         THEN [raised |-> FALSE, name |-> book_title \o ".md"]
    ELSE [raised |-> FALSE,
          name |-> BestLandingFrom(ToLower(CleanTitle(book_title)), landing, listing, 1, "", FZero)]

\* by_source: the titles of the annotations in the order of their first
\* occurrence, annotations without a title left out
RECURSIVE BookTitlesFrom(_, _, _)
BookTitlesFrom(annotations, i, seen) ==
    IF i > Len(annotations) THEN seen
    ELSE Only({BookTitlesFrom(annotations, i + 1,
                   IF book_title = "" \/ \E k \in 1..Len(seen) : seen[k] = book_title
                   THEN seen ELSE Append(seen, book_title))
               : book_title \in {annotations[i].book_title}})

\* _sync_book_annotations(book_annotations, md_path, landing_path) on the
\* files st holds: [markdowns, books, ids, synced]
_sync_book_annotations(book_annotations, md_path, landing_name, st) ==
    Only({[markdowns |-> IF r.updated THEN [st.markdowns EXCEPT ![md_path] = r.content]
                         ELSE st.markdowns,
           books |-> IF landing_name # "" /\ r.links # <<>>
                     THEN [st.books EXCEPT ![landing_name] =
                              _update_landing_page_links(@, r.links, MarkdownRel(md_path)).content]
                     ELSE st.books,
           ids |-> r.ids,
           synced |-> Len(r.links)]
          : r \in {SyncFrom(book_annotations, 1,
                            [content |-> st.markdowns[md_path], updated |-> FALSE,
                             ids |-> st.ids, links |-> <<>>])}})

\* The loop of sync_annotations from book i of by_source: st holds the
\* files, the ids generated, what became of each book handled so far and
\* whether an exception left the loop
RECURSIVE SyncAnnotationsFrom(_, _, _, _, _, _)
SyncAnnotationsFrom(annotations, titles, i, st, pool, listing) ==
    IF i > Len(titles) THEN st
    ELSE Only({IF md_path = NoPath
               THEN SyncAnnotationsFrom(annotations, titles, i + 1,
                        [st EXCEPT !.handled = Append(@, [title |-> titles[i], outcome |-> "skipped",
                                                          synced |-> 0])],
                        pool, listing)
               ELSE Only({IF landing_path.raised
                          THEN [st EXCEPT !.raised = TRUE]
                          ELSE Only({SyncAnnotationsFrom(annotations, titles, i + 1,
                                         [markdowns |-> r.markdowns, books |-> r.books, ids |-> r.ids,
                                          handled |-> Append(st.handled,
                                                        [title |-> titles[i], outcome |-> "synced",
                                                         synced |-> r.synced]),
                                          raised |-> FALSE],
                                         pool, listing)
                                     : r \in {_sync_book_annotations(
                                                 SelectSeq(annotations,
                                                           LAMBDA a : a.book_title = titles[i]),
                                                 md_path, landing_path.name, st)}})
                          : landing_path \in {_find_landing_page_for_book(titles[i], st.books, listing)}})
               : md_path \in {_find_markdown_for_book(titles[i], pool)}})

-----------------------------------------------------------------------------
(* Whole runs: the state machine                                           *)

MaxFullRuns == 2
MaxRunBucket == 2
MaxRunOriginals == 1
MaxSyncRuns == 1

RunBucketEntries ==
    { Entry(BucketDir, "Dune.pdf", "a"),
      Entry(BucketDir, "(Dune).pdf", "b"),
      Entry(BucketDir, "Dune.mobi", "c") }

RunOriginalsEntries ==
    { Entry(OriginalsDir, "Dune.pdf", "a"),
      Entry(OriginalsDir, "Dune (2022).pdf", "a"),
      Entry(OriginalsDir, "Frank Herbert - Dune.epub", "d"),
      Entry(OriginalsDir, "().pdf", "c") }

\* The landing directory a run may find: empty, or the page of an earlier run
RunLandingDirs == {<<>>, [n \in {"Dune.md"} |-> DuneLandingPage]}

Worlds(d) ==
    {[convert |-> c] :
        c \in (IF \E n \in NamesIn(d, BucketDir) : ToLower(Suffix(n)) \in convertible_formats
               THEN ConvertOutcomes ELSE {NoOutput})}

\* A book title longer than the file system allows a file name
LongTitle == "Dune " \o Concat([i \in 1..250 |-> "x"], 1, 250)

\* Annotations as the parsers return them
RunAnnotation(b, t, c) == [book_title |-> b, text |-> t, comment |-> c]

\* The annotation lists synced: of one book, and of two books in either
\* order
RunBatches ==
    { <<RunAnnotation("Dune", "nowhere in the book", ""), RunAnnotation("Dune", "short text", "")>>,
      <<RunAnnotation("Emma", "short text", ""), RunAnnotation("Dune", "short text", "")>>,
      <<RunAnnotation("Dune", "short text", ""), RunAnnotation(LongTitle, "short text", "")>>,
      <<RunAnnotation(LongTitle, "short text", ""), RunAnnotation("Dune", "short text", "")>> }

\* The markdown directories a run may find: those of the merge writers, or
\* a directory whose name holds no word
RunPools == MergePools \cup { <<Dir("---", <<"notes.md">>)>> }

\* The files of MARKDOWN_DIR hold the converted book
ConvertedTexts(pool) ==
    Only({[p \in {files[k] : k \in 1..Len(files)} |-> BookMarkdown] : files \in {MarkdownFiles(pool)}})

InitRun ==
    /\ \E bs \in SUBSET RunBucketEntries, os \in SUBSET RunOriginalsEntries :
          /\ Cardinality(bs) <= MaxRunBucket
          /\ Cardinality(os) <= MaxRunOriginals
          /\ disk = DiskOf(bs \cup os)
    /\ world \in Worlds(disk)
    /\ file_hashes = <<>>
    /\ bucketRun = NoBucketRun
    /\ books \in RunLandingDirs
    /\ annots = <<>>
    /\ mPool \in RunPools
    /\ \E complete \in BOOLEAN : hasAnnotationDir = complete /\ hasBooksDir = complete
    /\ pbRun = NoProcessBooksRun
    /\ syncRun = NoSyncRun
    /\ markdowns = ConvertedTexts(mPool)

\* The landing pages of the landing directory: its files but the index
LandingPages(landing) == [n \in LandingPageNames(landing) |-> landing[n]]

\* A full run of the program: BookProcessor(config).process_books(), the
\* bucket first, then the landing pages of the books in originals, then
\* the index
ProcessBooks ==
    /\ pbRun.runs < MaxFullRuns
    /\ \E bucket_files \in Orders(NamesIn(disk, BucketDir)) :
        \E b \in {process_bucket([disk |-> disk, file_hashes |-> <<>>], bucket_files,
                                 world.convert)} :
        \E originals_listing \in Orders(NamesIn(b.st.disk, OriginalsDir)),
           landing_listing \in Orders(LandingPageNames(books)) :
        \E r \in {ProcessBooksFrom(b.st.disk, ProcessedFiles(b.results),
                                   [books |-> books, annots |-> annots],
                                   originals_listing, landing_listing, mPool,
                                   hasAnnotationDir, hasBooksDir)} :
           /\ disk' = b.st.disk
           /\ file_hashes' = b.st.file_hashes
           /\ bucketRun' = [runs |-> bucketRun.runs + 1, before |-> disk, results |-> b.results]
           /\ books' = r.books
           /\ annots' = r.annots
           /\ pbRun' = [runs |-> pbRun.runs + 1, indexWritten |-> r.indexWritten,
                        indexed |-> r.indexed,
                        entries |-> r.log, landingBefore |-> LandingPages(books),
                        annotsBefore |-> annots, originalsBefore |-> OriginalsOf(disk)]
    /\ UNCHANGED <<meta, annotated, prevBooks, last, mPool, hasAnnotationDir, hasBooksDir,
                   world, syncRun, markdowns, mQuery, mResult, bResult, varsSync, varsCall,
                   varsLinks>>

\* AnnotationSyncer(config).sync_annotations(annotations): the annotations
\* are grouped by book title and each book's are synced into its markdown
\* file and linked from its landing page; an exception that leaves the loop
\* leaves the call
SyncAnnotations ==
    /\ syncRun.runs < MaxSyncRuns
    /\ \E annotations \in RunBatches, landing_listing \in Orders(LandingPageNames(books)) :
        \E titles \in {BookTitlesFrom(annotations, 1, <<>>)} :
        \E r \in {SyncAnnotationsFrom(annotations, titles, 1,
                                      [markdowns |-> markdowns, books |-> books, ids |-> idCount,
                                       handled |-> <<>>, raised |-> FALSE],
                                      mPool, landing_listing)} :
           /\ markdowns' = r.markdowns
           /\ books' = r.books
           /\ idCount' = r.ids
           /\ syncRun' = [runs |-> syncRun.runs + 1, raised |-> r.raised,
                          handled |-> r.handled, titles |-> titles]
    /\ UNCHANGED <<meta, hasAnnotationDir, annots, annotated, prevBooks, last, mPool, hasBooksDir,
                   world, pbRun, mQuery, mResult, bResult, mdFile, syncLanding, syncs,
                   varsBucket, varsCall, varsLinks>>

NextRun == ProcessBooks

\* The runs of main: process_books, and the sync of the annotations found
NextVault == ProcessBooks \/ SyncAnnotations

-----------------------------------------------------------------------------
(* Whole runs: properties                                                  *)

\* C12: after any completed process_books run, a run that finds no new book
\* files and no new bucket files included, the index file has been rewritten
\* and lists every landing page that exists at the end of the run.
C12_IndexRegeneratedEveryRun ==
    pbRun.runs > 0
    => /\ pbRun.indexWritten
       /\ IndexFileName \in DOMAIN books
       /\ \A n \in LandingPageNames(books) :
              Contains(books[IndexFileName], "[[Books/" \o n \o "|")

\* The supported book files of originals
SupportedOriginals ==
    {p[2] : p \in {q \in OriginalsOf(disk) :
                      ~disk[q].isDir /\ ToLower(Suffix(q[2])) \in supported_formats}}

\* C17: after a completed process_books run under the default
\* configuration, every supported book file in originals that was not
\* resolved to an already existing landing page has a landing page in the
\* landing directory and an annotation stub beside it.
C17_EveryBookGetsLandingPage ==
    (pbRun.runs > 0 /\ ~hasAnnotationDir /\ ~hasBooksDir)
    => \A i \in 1..Len(pbRun.entries) :
          ~pbRun.entries[i].resolved
          => /\ (SafeTitle(pbRun.entries[i].title) \o ".md") \in DOMAIN books
             /\ (SafeTitle(pbRun.entries[i].title) \o " - Annotations.md") \in DOMAIN annots

\* Every bucket file of the last process_bucket run has a result
BucketFilesAllHandled ==
    bucketRun.runs > 0 => \A p \in BucketFilesBefore : ResultsFor(p[2]) # {}

\* Every new book of the last process_books run has an entry
BooksAllHandled ==
    pbRun.runs > 0
    => \A n \in SupportedOriginals :
          (Stem(n) \o ".md") \notin DOMAIN pbRun.landingBefore
          => \E i \in 1..Len(pbRun.entries) : pbRun.entries[i].file = n

\* The last sync_annotations run returned, with an outcome for every book
SyncedBooksAllHandled ==
    syncRun.runs > 0
    => /\ ~syncRun.raised
       /\ \A k \in 1..Len(syncRun.titles) :
             \E h \in 1..Len(syncRun.handled) : syncRun.handled[h].title = syncRun.titles[k]

\* C13: an exception raised while one item is handled (a bucket file in
\* process_bucket, a book in process_books, a book's annotations in
\* sync_annotations) is caught for that item and becomes its outcome: every
\* remaining item of the run is still handled and the run completes.
C13_EveryItemIsHandled ==
    BucketFilesAllHandled /\ BooksAllHandled /\ SyncedBooksAllHandled

\* C16: of two full runs in succession with nothing changed from outside in
\* between, the second leaves every landing page, every annotation stub
\* and the set of files in originals as the first left them.
C16_SecondRunChangesNothing ==
    pbRun.runs >= 2
    => /\ LandingPages(books) = pbRun.landingBefore
       /\ annots = pbRun.annotsBefore
       /\ OriginalsOf(disk) = pbRun.originalsBefore

\* The pairs of books of the last run, the first handled before the
\* second, that are different files with one sanitized title, the first
\* having written its landing page
SameTitlePairs ==
    {p \in (1..Len(pbRun.entries)) \X (1..Len(pbRun.entries)) :
        /\ p[1] < p[2]
        /\ pbRun.entries[p[1]].file # pbRun.entries[p[2]].file
        /\ SafeTitle(pbRun.entries[p[1]].title) = SafeTitle(pbRun.entries[p[2]].title)
        /\ ~pbRun.entries[p[1]].resolved
        /\ pbRun.entries[p[1]].created}

\* C27: when two different new book files of one process_books run come to
\* the same sanitized title, the second is taken for a duplicate of the
\* first: the landing page and the annotation document the first wrote are
\* not written a second time.
C27_SecondSameTitleIsDuplicate ==
    pbRun.runs > 0
    => \A p \in SameTitlePairs :
          pbRun.entries[p[2]].resolved /\ ~pbRun.entries[p[2]].created

\* C29: every entry process_books writes to the index names a landing page
\* that is in the landing directory when the run ends, the entries of the
\* books whose processing raised an error included.
C29_IndexEntriesHaveLandingPages ==
    pbRun.runs > 0
    => \A i \in 1..Len(pbRun.indexed) :
          /\ EntryTitle(pbRun.indexed[i]) \o ".md" \in LandingPageNames(books)
          /\ Contains(books[IndexFileName],
                      "[[Books/" \o EntryTitle(pbRun.indexed[i]) \o ".md|")

-----------------------------------------------------------------------------
(* Match-only runs: IndexProcessor.match_landing_pages_with_markdown       *)

\* os.path.splitext(name)[0]: the name up to its last dot, unless nothing
\* but dots stands before that dot
SplitextRoot(name) ==
    Only({IF i > 1 /\ (\E k \in 1..(i - 1) : CharAt(name, k) # ".")
          THEN SubSeq(name, 1, i - 1) ELSE name
          : i \in {RFind(name, ".")}})

\* rapidfuzz.utils.default_process(s): lower case, every character that is
\* no letter and no digit made a blank, stripped
default_process(s0) ==
    Only({Strip(Concat([i \in 1..Len(s) |->
                           IF IsAlnum(CharAt(s, i)) THEN LowerChar(CharAt(s, i)) ELSE " "],
                       1, Len(s)))
          : s \in {s0}})

\* sorted(words): w put into the sorted sequence q
RECURSIVE InsertWord(_, _)
InsertWord(q, w) ==
    IF q = <<>> THEN <<w>>
    ELSE IF StrLess(w, q[Len(q)])
         THEN Append(InsertWord(SubSeq(q, 1, Len(q) - 1), w), q[Len(q)])
         ELSE Append(q, w)

RECURSIVE SortWords(_)
SortWords(ws) ==
    IF ws = <<>> THEN <<>>
    ELSE InsertWord(SortWords(SubSeq(ws, 1, Len(ws) - 1)), ws[Len(ws)])

\* rapidfuzz.fuzz.token_sort_ratio(a, b): the ratio of the two strings'
\* words, sorted and joined by blanks
token_sort_ratio(a, b) ==
    fuzz_ratio(Join(SortWords(Words(a)), " "), Join(SortWords(Words(b)), " "))

\* matches[0][1] >= 60
MatchScoreThreshold == 60

\* matches[0] of process.extract(query, choices, scorer=fuzz.token_sort_ratio,
\* limit=3): <<index, score>> of the choice with the highest score, the first
\* of them in the list, <<0, 0>> for no choices.  rapidfuzz before 3.0 hands
\* query and choices through default_process, rapidfuzz 3 does not.
ExtractBest(query, choices, processed) ==
    IF choices = <<>> THEN <<0, FZero>>
    ELSE Only({Only({<<i, score[i]>>
                     : i \in {CHOOSE i \in DOMAIN score :
                                 \A j \in DOMAIN score :
                                    \/ FGt(score[i], score[j])
                                    \/ FEq(score[i], score[j]) /\ i <= j}})
               : score \in {[k \in 1..Len(choices) |->
                               IF processed
                               THEN token_sort_ratio(default_process(query),
                                                     default_process(choices[k]))
                               ELSE token_sort_ratio(query, choices[k])]}})

\* original_to_landing, by the position of the original file: the first
\* landing page listed whose text holds the file's stem, "" if there is none
OriginalToLanding(original_files, landing_pages, landing) ==
    [i \in 1..Len(original_files) |->
        Only({IF hits = {} THEN "" ELSE landing_pages[MinOf(hits)]
              : hits \in {{k \in 1..Len(landing_pages) :
                             Contains(landing[landing_pages[k]],
                                      SplitextRoot(original_files[i]))}}})]

\* markdown_files: the files named *.md (in any case) of the subdirectories
\* of MARKDOWN_DIR, as <<directory, file>>, in the order walked
RECURSIVE WalkMarkdownFiles(_, _)
WalkMarkdownFiles(pool, i) ==
    IF i > Len(pool) THEN <<>>
    ELSE (IF pool[i].isDir
          THEN [k \in 1..Len(SelectSeq(pool[i].files, LAMBDA f : EndsWith(ToLower(f), ".md"))) |->
                  <<pool[i].name,
                    SelectSeq(pool[i].files, LAMBDA f : EndsWith(ToLower(f), ".md"))[k]>>]
          ELSE <<>>)
         \o WalkMarkdownFiles(pool, i + 1)

\* markdown_link: the link to the markdown file itself
markdown_link(md_file) ==
    "- [[" \o MarkdownDirRel \o "/" \o md_file[1] \o "/" \o md_file[2] \o "|Markdown Version]]"

\* re.search(r'\[\[.*?' + tail, line) is not None for a literal tail: the
\* line's first "[[" is followed, on the line, by the tail
LineHasLink(line, tail) ==
    Only({i # 0 /\ Find(line, tail, i + 2) # 0 : i \in {Find(line, "[[", 1)}})

\* the same search over a text: the dot matches no newline, so a match lies
\* within one line
HasLink(content, tail) ==
    Only({\E k \in 1..Len(lines) : LineHasLink(lines[k], tail)
          : lines \in {SplitOn(content, "\n")}})

index_link_tail == "/index|Markdown Version]]"
directory_link_tail == "|Markdown Directory]]"

\* index_link_pattern.search(content) is not None
has_index_link(content) == HasLink(content, index_link_tail)
\* directory_link_pattern.search(content) is not None
has_directory_link(content) == HasLink(content, directory_link_tail)

\* The search of a mistyped pattern, r'\[\[.*?\|Markdown Link\]\]', which
\* the links this program writes never match
has_markdown_link_label(content) == HasLink(content, "|Markdown Link]]")

\* re.search(r'\[\[.*?\|Markdown.*?\]\]', line) is not None: the line's
\* first "[[" is followed by "|Markdown" and that by "]]"
LineHasAnyMarkdownLink(line) ==
    Only({Only({i # 0 /\ j # 0 /\ Find(line, "]]", j + Len("|Markdown")) # 0
                : j \in {IF i = 0 THEN 0 ELSE Find(line, "|Markdown", i + 2)}})
          : i \in {Find(line, "[[", 1)}})

\* any_markdown_link_pattern.search(content) is not None
has_any_markdown_link(content) ==
    Only({\E k \in 1..Len(lines) : LineHasAnyMarkdownLink(lines[k])
          : lines \in {SplitOn(content, "\n")}})

\* pattern.sub(repl, line) for the pattern r'\[\[.*?' + tail: each match
\* runs from the first "[[" left to the first tail after it
RECURSIVE SubLinksInLine(_, _, _)
SubLinksInLine(line, tail, repl) ==
    Only({Only({IF i = 0 \/ j = 0 THEN line
                ELSE SubSeq(line, 1, i - 1) \o repl
                        \o SubLinksInLine(SubSeq(line, j + Len(tail), Len(line)), tail, repl)
                : j \in {IF i = 0 THEN 0 ELSE Find(line, tail, i + 2)}})
          : i \in {Find(line, "[[", 1)}})

\* pattern.sub(repl, content)
SubLinks(content, tail, repl) ==
    Only({Join([k \in 1..Len(lines) |-> SubLinksInLine(lines[k], tail, repl)], "\n")
          : lines \in {SplitOn(content, "\n")}})

doc_versions_heading == "## Document Versions"

\* re.search(r'## Document Versions(.*?)(?=\n## |$)', content, re.DOTALL):
\* [found, group]; the group runs from the first heading to the next
\* "\n## ", or to the end of the text less a final newline
DocVersionsMatch(content) ==
    Only({IF p = 0 THEN [found |-> FALSE, group |-> ""]
          ELSE Only({Only({[found |-> TRUE,
                            group |-> SubSeq(content, from,
                                             (IF next # 0 THEN next
                                              ELSE IF Len(content) >= from
                                                        /\ CharAt(content, Len(content)) = "\n"
                                                   THEN Len(content)
                                                   ELSE Len(content) + 1) - 1)]
                           : next \in {Find(content, "\n## ", from)}})
                     : from \in {p + Len(doc_versions_heading)}})
          : p \in {Find(content, doc_versions_heading, 1)}})

\* The body of the loop for a markdown file whose best original has the
\* landing page: a page without any markdown link gets the link at the end
\* of its Document Versions section, an index or directory link is replaced
\* by the link, and a page with another markdown link is left alone.
\* st is [books, written, kept].
UpdateLandingPage(st, page, link) ==
    Only({IF ~has_any_markdown_link(content)
          THEN Only({IF m.found
                     THEN [st EXCEPT !.books[page] =
                                        ReplaceAll(content, doc_versions_heading \o m.group,
                                                   doc_versions_heading \o m.group \o "\n" \o link),
                                     !.written = @ \cup {page}]
                     ELSE st
                     : m \in {DocVersionsMatch(content)}})
          ELSE IF has_index_link(content)
          THEN [st EXCEPT !.books[page] = SubLinks(content, index_link_tail, link),
                          !.written = @ \cup {page}]
          ELSE IF has_directory_link(content)
          THEN [st EXCEPT !.books[page] = SubLinks(content, directory_link_tail, link),
                          !.written = @ \cup {page}]
          ELSE [st EXCEPT !.kept = @ \cup {page}]
          : content \in {st.books[page]}})

\* The loop over the markdown files from file i
RECURSIVE MatchFrom(_, _, _, _, _, _)
MatchFrom(markdown_files, i, original_files, original_to_landing, processed, st) ==
    IF i > Len(markdown_files) THEN st
    ELSE Only({MatchFrom(markdown_files, i + 1, original_files, original_to_landing, processed,
                         IF best[1] # 0 /\ FGe(best[2], <<MatchScoreThreshold, 1>>)
                                        /\ original_to_landing[best[1]] # ""
                         THEN UpdateLandingPage(st, original_to_landing[best[1]],
                                                markdown_link(markdown_files[i]))
                         ELSE st)
               : best \in {ExtractBest(markdown_files[i][1],
                                       [k \in 1..Len(original_files) |->
                                           SplitextRoot(original_files[k])],
                                       processed)}})

\* IndexProcessor.match_landing_pages_with_markdown(): [books, written,
\* kept], the landing directory afterwards, the pages written and the pages
\* found linked already
match_landing_pages_with_markdown(landing, original_files, landing_pages, pool, processed) ==
    MatchFrom(WalkMarkdownFiles(pool, 1), 1, original_files,
              OriginalToLanding(original_files, landing_pages, landing), processed,
              [books |-> landing, written |-> {}, kept |-> {}])

MaxMatchRuns == 2

NoMatchRun ==
    [runs |-> 0, raised |-> FALSE, before |-> <<>>, written |-> {}, kept |-> {}, linked |-> {}]

\* main.py --match-only: one run of match_landing_pages_with_markdown over
\* the vault.  Without a BOOKS_DIR in the configuration the call raises at
\* its first lines and main logs the error.
MatchLandingPages ==
    /\ matchRun.runs < MaxMatchRuns
    /\ IF ~hasBooksDir
       THEN /\ matchRun' = [matchRun EXCEPT !.runs = @ + 1, !.raised = TRUE, !.before = books,
                                            !.written = {}, !.kept = {}]
            /\ UNCHANGED books
       ELSE \E original_files \in Orders({n \in NamesIn(disk, OriginalsDir) :
                                             IsFile(disk, <<OriginalsDir, n>>)}),
               landing_pages \in Orders({n \in DOMAIN books : EndsWith(n, ".md")}),
               processed \in BOOLEAN :
            \E r \in {match_landing_pages_with_markdown(books, original_files, landing_pages,
                                                        mPool, processed)} :
               /\ books' = r.books
               /\ matchRun' = [runs |-> matchRun.runs + 1, raised |-> FALSE, before |-> books,
                               written |-> r.written, kept |-> r.kept,
                               linked |-> matchRun.linked \cup r.written]
    /\ UNCHANGED <<meta, hasAnnotationDir, annots, annotated, prevBooks, last, varsMatch,
                   varsSync, varsBucket, varsCall, varsRun>>

\* The landing page create_landing_page writes for a book of originals
LinksLandingPage(title, file, match) ==
    _build_landing_page_content(
        LandingMetadata(<< <<"path", S(OriginalsDir \o "/" \o file)>>, <<"title", S(title)>>,
                           <<"status", S("new")>>, <<"reading_progress", N(0)>> >>,
                        title, match))

DuneDirectLink == "[[Books/Markdowns/Dune/Dune.md|Markdown Version]]"

\* The landing pages of Dune: without a markdown link, with the link to
\* the file, with the link fix_markdown_dirs.py makes of it, and with the
\* directory link of earlier versions
DunePages ==
    { LinksLandingPage("Dune", "Dune.pdf", NoMatch),
      LinksLandingPage("Dune", "Dune.pdf", Matched("Dune", "Dune.md")),
      ReplaceAll(LinksLandingPage("Dune", "Dune.pdf", Matched("Dune", "Dune.md")),
                 DuneDirectLink, "[[Books/Markdowns/Dune/index|Markdown Version]]"),
      ReplaceAll(LinksLandingPage("Dune", "Dune.pdf", Matched("Dune", "Dune.md")),
                 DuneDirectLink, "[[Books/Markdowns/Dune|Markdown Directory]]") }

LinksIndexEntries ==
    << <<"Dune", << <<"title", S("Dune")>>, <<"author", S("Frank Herbert")>>,
                    <<"format", S("PDF")>> >> >> >>

\* The landing directories: a page of Dune or none, a page of Dune Messiah
\* without a link or none, and the index beside a page of Dune
LinksLandingDirs ==
    { d @@ m :
        d \in {<<>>} \cup {("Dune.md" :> p) : p \in DunePages},
        m \in {<<>>, ("Dune Messiah.md" :>
                         LinksLandingPage("Dune Messiah", "Dune Messiah.epub", NoMatch))} }
    \cup { ("Dune.md" :> p) @@ (IndexFileName :> IndexContent(LinksIndexEntries)) :
             p \in {LinksLandingPage("Dune", "Dune.pdf", NoMatch)} }

LinksOriginals == { {}, {"Dune.pdf"}, {"Dune.pdf", "Dune Messiah.epub"} }

LinksPools ==
    { <<>>,
      <<Dir("Dune", <<"Dune.md">>)>>,
      <<Dir("Dune", <<"Dune.md", "notes.md">>)>>,
      <<Dir("Dune Messiah", <<"Dune Messiah.md">>), Dir("Dune", <<"Dune.md">>)>>,
      <<Dir("dune", <<"index.MD", "cover.png">>)>>,
      <<[name |-> "Dune.md", isDir |-> FALSE, files |-> <<>>], Dir("Emma", <<"Emma.md">>)>> }

InitLinks ==
    /\ \E os \in LinksOriginals :
          disk = [p \in {<<OriginalsDir, n>> : n \in os} |-> [isDir |-> FALSE, bytes |-> "a"]]
    /\ books \in LinksLandingDirs
    /\ mPool \in LinksPools
    /\ \E complete \in BOOLEAN : hasAnnotationDir = complete /\ hasBooksDir = complete
    /\ matchRun = NoMatchRun

NextLinks == MatchLandingPages

-----------------------------------------------------------------------------
(* Match-only runs: properties                                             *)

\* The number of "Markdown Version" links of a page
MarkdownVersionLinks(content) == Cardinality(Occurrences(content, "|Markdown Version]]", 1))

\* The page has a "Markdown Version" link and no index or directory link
HasDirectLink(content) ==
    /\ MarkdownVersionLinks(content) > 0
    /\ ~has_index_link(content)
    /\ ~has_directory_link(content)

\* C30: after any number of match-only runs over a vault whose originals
\* and markdown directories stay as they are, every landing page holds at
\* most one "Markdown Version" link, and a page that held such a link when
\* the last run started, and no index or directory link, has the text it
\* had then.
C30_MatchOnlyIdempotent ==
    /\ \A n \in DOMAIN books : MarkdownVersionLinks(books[n]) <= 1
    /\ matchRun.runs > 0
       => /\ DOMAIN books = DOMAIN matchRun.before
          /\ \A n \in DOMAIN matchRun.before :
                HasDirectLink(matchRun.before[n]) => books[n] = matchRun.before[n]

\* A second run has found, on a page, the link the first run had put there,
\* and has left the page as it was.
C30_Witness ==
    /\ matchRun.runs = 2
    /\ \E n \in matchRun.kept \cap matchRun.linked :
          /\ HasDirectLink(matchRun.before[n])
          /\ MarkdownVersionLinks(books[n]) = 1
          /\ books[n] = matchRun.before[n]

-----------------------------------------------------------------------------
(* Single calls of the helper functions                                    *)
(*                                                                         *)
(* A behaviour makes one call: call holds the function and its arguments,  *)
(* ret what it returned.                                                   *)

NoCall == [fn |-> "none", args |-> <<>>]
NotCalled == [called |-> FALSE, value |-> <<>>]
Returned(v) == [called |-> TRUE, value |-> v]

Call(fn, args) == [fn |-> fn, args |-> args]

\* Strings a title, a directory name or a search text may be.
SimilarityStrings ==
    { "Dune", "dune", "Dune Messiah", "Dune: Messiah", "Frank Herbert - Dune",
      "???", "-", " ", "\n", "!a", "  x ", "a b" }

SimilarityCalls ==
    {Call("_calculate_similarity", <<s1, s2>>) : s1 \in SimilarityStrings, s2 \in SimilarityStrings}

\* What the ebook-meta tool may do: fail (missing, timeout), or print
ToolOutcomes ==
    { [ok |-> FALSE, stdout |-> ""],
      [ok |-> TRUE, stdout |-> ""],
      [ok |-> TRUE, stdout |-> "Title               : ???\n"],
      [ok |-> TRUE, stdout |-> "Title : Dune\nAuthor(s) : Frank Herbert\n"],
      [ok |-> TRUE, stdout |-> "Title               : \nPublisher : Ace"] }

BookFileNames ==
    {"Dune.pdf", "().pdf", "---.pdf", "[1].epub", "Frank Herbert - Dune.pdf"}

ExtractCalls ==
    {Call("extract_metadata", <<name, tool>>) : name \in BookFileNames, tool \in ToolOutcomes}

DirtyStrings ==
    { "Book: With [bad] characters?", "???", "()", "a--b", " - x - ", "Dune", "",
      "A/B: C*D?E\"F<G>H|I", "Dune (2nd ed.)", "a-b: c" }

SanitizeCalls == {Call("_sanitize_string", <<text>>) : text \in DirtyStrings}

\* Excerpts of one line and of several, and bodies they are looked up in
Excerpts ==
    { "alpha beta", "alpha beta\ngamma delta", "Dune\nArrakis",
      "fear is the mind", " fear is the mind killer \n" }

Bodies ==
    { "x\nalpha beta zeta\n", "Dune\nArrakis is dry",
      "# Title\n*fear* is the mind killer\nalpha beta",
      "alpha beta\nalpha beta gamma", "" }

FindTextCalls ==
    {Call("_find_text_in_markdown", <<search_text, content>>) : search_text \in Excerpts, content \in Bodies}

\* Bodies whose lines are to be highlighted, and the excerpts located in them
HighlightBodies ==
    { "abcdefghij xy\nthe spice must flow here",
      "abcdefghijkl and a lot more text here\n==marked== already",
      "fear is the mind killer\nshort",
      "abd\nabcdefghij" }

HighlightTexts ==
    {"abcdefghij", "abcdefghijkl", "the spice must flow", "fear is the mind-killer", "shore", "abc"}

Comments == {"", " a note "}

HighlightCalls ==
    {Call("_apply_highlighting", <<content, index, highlight_text, comment>>) :
        content \in HighlightBodies, index \in 1..2,
        highlight_text \in HighlightTexts, comment \in Comments}

\* What a user may have left after the front matter of an annotation stub
StubBodies ==
    { "\n\n# Dune - Annotations\n\nA note of mine.\n",
      "\n\n# Notes\n\n---\n\nBelow the rule.\n",
      "\n# My notes\n",
      "\n# My notes\n\n---\n\nBelow the rule.\n",
      "\n\nText.",
      "\nText." }

\* Stubs on disk: the front matter of an earlier run, then the user's body
ExistingStubs(md) ==
    {AnnotationFrontmatter(md, SafeTitle(Str(DictGet(md, "title", S(""))))) \o body : body \in StubBodies}

StubCalls ==
    {Call("_create_annotation_document", <<m[1], m[2]>>) :
        m \in UNION {{<<metadata, stub>> : stub \in ExistingStubs(metadata)} : metadata \in Metas}}

\* Metadata handed to _extract_publication_year: a year field, a date
\* field, a publisher, and some of them together
YearMetas ==
    { << <<"year", S("2020")>> >>,
      << <<"year", S("1850")>> >>,
      << <<"year", N(1999)>>, <<"publisher", S("Ace 1850")>> >>,
      << <<"pubdate", S("2020-05-01")>> >>,
      << <<"pubdate", S("1850-01-01")>> >>,
      << <<"pubdate", S("0000-00-00")>> >>,
      << <<"pubdate", S("01/02/2150")>> >>,
      << <<"pubdate", S("1850")>> >>,
      << <<"pubdate", S("May 2020")>>, <<"publisher", S("Ace (2020)")>> >>,
      << <<"year", S("1850")>>, <<"pubdate", S("1850-01-01")>> >>,
      << <<"publisher", S("Ace 2150")>> >>,
      << <<"publisher", S("Ace (2020)")>> >>,
      << <<"title", S("Dune")>> >> }

YearCalls == {Call("_extract_publication_year", <<metadata>>) : metadata \in YearMetas}

\* What the hashed file holds; sample_size being one byte here, a file of
\* more than two bytes is a large one
FileContents == {"", "a", "ab", "ac", "abc", "abcd", "axcd"}

HashCalls == {Call("_calculate_file_hash", <<bytes>>) : bytes \in FileContents}

\* existing_metadata as process_books reads it from the landing pages
ExistingPage(stem, title, author) == [stem |-> stem, title |-> title, author |-> author]

ExistingPools ==
    { <<>>,
      <<ExistingPage("Dune", "Dune", "Frank Herbert")>>,
      <<ExistingPage("Dune", "Dune", "Unknown")>>,
      <<ExistingPage("Dune Messiah", "Dune Messiah", "Frank Herbert"),
        ExistingPage("Dune", "Dune", "Frank Herbert")>>,
      <<ExistingPage("Dune (1965)", "Dune", "Frank Herbert"),
        ExistingPage("Dune", "Dune", "Frank Herbert")>>,
      <<ExistingPage("Dune", "Dune", "F. Herbert"),
        ExistingPage("Dune 2", "DUNE ", "Frank Herbert")>>,
      <<ExistingPage("Dunes", "Dunes", ""), ExistingPage("Emma", "Emma", "Jane Austen")>> }

DuplicateCalls ==
    {Call("_find_duplicate_by_metadata", <<title, author, existing>>)
        : title \in {"Dune", "Dune Messiah", "dune"},
          author \in {"Frank Herbert", "Unknown Author", ""},
          existing \in ExistingPools}

\* move_to_originals: a file of the bucket or of the temporary directory,
\* originals holding files or a directory under its name and under the
\* numbered names, and the cache of hashes empty or holding the hash of an
\* earlier file of the same path
MoveOriginals ==
    { Entry(OriginalsDir, "Dune.pdf", "a"),
      Entry(OriginalsDir, "Dune.pdf", "b"),
      [path |-> <<OriginalsDir, "Dune.pdf">>, isDir |-> TRUE, bytes |-> ""],
      Entry(OriginalsDir, "Dune (1).pdf", "a"),
      Entry(OriginalsDir, "Dune (1).pdf", "c"),
      Entry(OriginalsDir, "Dune (2).pdf", "c"),
      Entry(OriginalsDir, "Emma.pdf", "a") }

MoveIncoming ==
    { Entry(BucketDir, "Dune.pdf", "a"),
      Entry(BucketDir, "Dune.pdf", "ad"),
      Entry(BucketDir, "Dune.pdf", "e"),
      Entry(TempDir, "Dune.pdf", "e") }

MoveCaches(path) == {<<>>, path :> Md5("a"), path :> Md5("b")}

MoveCalls ==
    {Call("move_to_originals", <<[disk |-> DiskOf(os \cup {f}), file_hashes |-> c], f.path>>)
       : <<os, f, c>> \in {x \in (SUBSET MoveOriginals) \X MoveIncoming
                                     \X UNION {MoveCaches(g.path) : g \in MoveIncoming} :
                             DifferentPaths(x[1]) /\ x[3] \in MoveCaches(x[2].path)}}
      \cup {Call("move_to_originals", <<[disk |-> DiskOf(os), file_hashes |-> <<>>],
                                        <<BucketDir, "Dune.pdf">> >>)
            : os \in {{}, {Entry(OriginalsDir, "Dune.pdf", "a")}}}

Calls ==
    SimilarityCalls \cup ExtractCalls \cup SanitizeCalls \cup FindTextCalls \cup HighlightCalls
        \cup StubCalls \cup YearCalls \cup HashCalls \cup DuplicateCalls \cup MoveCalls

InitCall ==
    /\ call \in Calls
    /\ ret = NotCalled

\* BookProcessor._calculate_similarity(str1, str2)
CallSimilarity ==
    /\ call.fn = "_calculate_similarity"
    /\ ~ret.called
    /\ ret' = Returned(_calculate_similarity(call.args[1], call.args[2]))
    /\ UNCHANGED <<call, othersOfCall>>

\* CalibreMetadata.extract_metadata(file_path), with what the tool does
CallExtractMetadata ==
    /\ call.fn = "extract_metadata"
    /\ ~ret.called
    /\ ret' = Returned(extract_metadata(call.args[1], call.args[2]))
    /\ UNCHANGED <<call, othersOfCall>>

\* CalibreMetadata._sanitize_string(text)
CallSanitizeString ==
    /\ call.fn = "_sanitize_string"
    /\ ~ret.called
    /\ ret' = Returned(_sanitize_string(call.args[1]))
    /\ UNCHANGED <<call, othersOfCall>>

\* AnnotationSyncer._find_text_in_markdown(search_text, content)
CallFindText ==
    /\ call.fn = "_find_text_in_markdown"
    /\ ~ret.called
    /\ ret' = Returned(_find_text_in_markdown(call.args[1], call.args[2]))
    /\ UNCHANGED <<call, othersOfCall>>

\* AnnotationSyncer._apply_highlighting(content, match_index,
\* highlight_text, comment); match_index counted from 1 here
CallApplyHighlighting ==
    /\ call.fn = "_apply_highlighting"
    /\ ~ret.called
    /\ ret' = Returned(_apply_highlighting(call.args[1], call.args[2], call.args[3], call.args[4]))
    /\ UNCHANGED <<call, othersOfCall>>

\* MarkdownProcessor._create_annotation_document(metadata, safe_title) with
\* the stub already on disk; the value is the text written to the stub
CallCreateAnnotationDocument ==
    /\ call.fn = "_create_annotation_document"
    /\ ~ret.called
    /\ ret' = Returned(AnnotationContent(call.args[1],
                                         SafeTitle(Str(DictGet(call.args[1], "title", S("")))),
                                         File(call.args[2])))
    /\ UNCHANGED <<call, othersOfCall>>

\* FileProcessor._extract_publication_year(metadata)
CallExtractPublicationYear ==
    /\ call.fn = "_extract_publication_year"
    /\ ~ret.called
    /\ ret' = Returned(_extract_publication_year(call.args[1]))
    /\ UNCHANGED <<call, othersOfCall>>

\* FileProcessor(config)._calculate_file_hash(file_path) for a file of the
\* bucket holding call.args[1], the cache of hashes being empty
CallCalculateFileHash ==
    /\ call.fn = "_calculate_file_hash"
    /\ ~ret.called
    /\ ret' = Returned(_calculate_file_hash(
                           [disk |-> (<<BucketDir, "book.pdf">> :>
                                         [isDir |-> FALSE, bytes |-> call.args[1]]),
                            file_hashes |-> <<>>],
                           <<BucketDir, "book.pdf">>).hash)
    /\ UNCHANGED <<call, othersOfCall>>

\* FileProcessor.move_to_originals(file_path), call.args[1] being the
\* directories and the cache of hashes it finds
CallMoveToOriginals ==
    /\ call.fn = "move_to_originals"
    /\ ~ret.called
    /\ ret' = Returned(move_to_originals(call.args[1], call.args[2]))
    /\ UNCHANGED <<call, othersOfCall>>

\* BookProcessor._find_duplicate_by_metadata(title, author, existing_metadata)
CallFindDuplicate ==
    /\ call.fn = "_find_duplicate_by_metadata"
    /\ ~ret.called
    /\ ret' = Returned(_find_duplicate_by_metadata(call.args[1], call.args[2], call.args[3]))
    /\ UNCHANGED <<call, othersOfCall>>

NextCall ==
    \/ CallMoveToOriginals
    \/ CallFindDuplicate
    \/ CallExtractPublicationYear
    \/ CallCalculateFileHash
    \/ CallSimilarity
    \/ CallExtractMetadata
    \/ CallSanitizeString
    \/ CallFindText
    \/ CallApplyHighlighting
    \/ CallCreateAnnotationDocument

-----------------------------------------------------------------------------
(* Single calls: properties                                                *)

\* C11: for every non-empty string s, strings of punctuation or whitespace
\* included, _calculate_similarity(s, s) is exactly 1.0.
C11_SelfMatchIsOne ==
    ( /\ call.fn = "_calculate_similarity"
      /\ ret.called
      /\ call.args[1] = call.args[2]
      /\ call.args[1] # "" )
    => FEq(ret.value, <<1, 1>>)

\* C14: for every file path and every outcome of the metadata tool, the
\* metadata extract_metadata returns has a title, and the title is not empty.
C14_TitleNeverEmpty ==
    (call.fn = "extract_metadata" /\ ret.called)
    => /\ DictHas(ret.value, "title")
       /\ Str(DictGet(ret.value, "title", S(""))) # ""

\* The characters the sanitizer is to remove
ProblemChars == {"[", "]", "(", ")", ":", "/", "*", "?", "\"", "<", ">", "|"}

\* Whether r[i..] can be had from t[j..] by leaving characters out
RECURSIVE IsSubsequenceFrom(_, _, _, _)
IsSubsequenceFrom(r, i, t, j) ==
    IF i > Len(r) THEN TRUE
    ELSE IF j > Len(t) THEN FALSE
    ELSE IF CharAt(r, i) = CharAt(t, j) THEN IsSubsequenceFrom(r, i + 1, t, j + 1)
    ELSE IsSubsequenceFrom(r, i, t, j + 1)

\* C18: the sanitized string holds none of the characters [ ] ( ) : / * ? "
\* < > |, and nothing stands in for a character that was removed: the
\* result is the text with characters left out, and
\* "Book: With [bad] characters?" becomes "Book With bad characters".
C18_SanitizeRemovesOutright ==
    (call.fn = "_sanitize_string" /\ ret.called)
    => /\ CharsOf(ret.value) \cap ProblemChars = {}
       /\ IsSubsequenceFrom(ret.value, 1, call.args[1], 1)
       /\ call.args[1] = "Book: With [bad] characters?"
              => ret.value = "Book With bad characters"

\* The excerpt as the locator looks for it: stripped, and for an excerpt
\* of several lines its first line
AnchorOf(search_text) == SplitOn(Strip(search_text), "\n")[1]

\* The cleaned lines of the body that hold the anchor verbatim
LinesHolding(anchor, content) ==
    {k \in 1..Len(SplitOn(CleanMarkdown(content), "\n")) :
        Contains(SplitOn(CleanMarkdown(content), "\n")[k], anchor)}

\* C19: whenever the excerpt, or the first line of an excerpt of several
\* lines, stands verbatim in some cleaned line of the body,
\* _find_text_in_markdown returns the first such line, whatever the fuzzy
\* threshold says.
C19_VerbatimLineIsFound ==
    ( /\ call.fn = "_find_text_in_markdown" /\ ret.called
      /\ call.args[1] # "" /\ call.args[2] # ""
      /\ LinesHolding(AnchorOf(call.args[1]), call.args[2]) # {} )
    => /\ ret.value.found
       /\ ret.value.index = MinOf(LinesHolding(AnchorOf(call.args[1]), call.args[2]))
       /\ ret.value.line = SplitOn(call.args[2], "\n")[ret.value.index]

\* The line the span rule asks for: the longest common block wrapped if it
\* has at least 10 characters, else the whole line wrapped if the
\* similarity exceeds 0.6, else the line as it is
SpanRuleLine(highlight_text, line) ==
    Only({IF best[3] >= 10
          THEN SubSeq(line, 1, best[2] - 1) \o "=="
                   \o SubSeq(line, best[2], best[2] + best[3] - 1) \o "=="
                   \o SubSeq(line, best[2] + best[3], Len(line))
          ELSE IF FGt(ratio(highlight_text, line), <<3, 5>>)
               THEN "==" \o line \o "=="
               ELSE line
          : best \in {BestBlock(get_matching_blocks(highlight_text, line))}})

\* C20: for a located line with no highlight marker yet, the longest common
\* block is wrapped in == if it has at least 10 characters; otherwise the
\* whole line is wrapped if the similarity exceeds 0.6; otherwise the line
\* stays as it is.  Nothing else decides.
C20_SpanRule ==
    ( /\ call.fn = "_apply_highlighting" /\ ret.called
      /\ ~Contains(SplitOn(call.args[1], "\n")[call.args[2]], "==") )
    => /\ SplitOn(ret.value.content, "\n")[call.args[2]]
            = SpanRuleLine(call.args[3], SplitOn(call.args[1], "\n")[call.args[2]])
       /\ ret.value.updated
            = (SplitOn(ret.value.content, "\n")[call.args[2]] # SplitOn(call.args[1], "\n")[call.args[2]])

\* Where the line that closes the front matter begins (0 if the text has
\* no front-matter block): the first "---" line after the opening one
FrontMatterClose(text) ==
    IF ~StartsWith(text, "---\n") THEN 0
    ELSE Only({IF ends = {} THEN 0 ELSE MinOf(ends) + 1
               : ends \in {{p \in Occurrences(text, "\n---", 4) :
                               p + 4 > Len(text) \/ CharAt(text, p + 4) = "\n"}}})

\* Everything that follows the front-matter block
BodyAfterFrontMatter(text) == SubSeq(text, FrontMatterClose(text) + 3, Len(text))

\* C15: when an annotation stub exists, regenerating it keeps everything
\* that followed the front-matter block of the existing file, verbatim,
\* whatever body the user wrote; only the front matter is refreshed.
C15_StubBodyPreserved ==
    ( /\ call.fn = "_create_annotation_document" /\ ret.called
      /\ FrontMatterClose(call.args[2]) > 0 )
    => /\ FrontMatterClose(ret.value) > 0
       /\ BodyAfterFrontMatter(ret.value) = BodyAfterFrontMatter(call.args[2])

C22_SmallFileHashedInFull ==
    (call.fn = "_calculate_file_hash" /\ ret.called /\ Len(call.args[1]) <= 2 * sample_size)
    => ret.value = Md5(call.args[1])

\* The combined score of the new book with page i of the existing pages
ScoreOfPage(title, author, existing, i) ==
    CombinedScore(Strip(ToLower(title)), Strip(ToLower(author)),
                  Strip(ToLower(existing[i].title)), Strip(ToLower(existing[i].author)))

\* The pages whose combined score is at least 85
DuplicateCandidates(title, author, existing) ==
    {i \in 1..Len(existing) : FGe(ScoreOfPage(title, author, existing, i), DuplicateThreshold)}

\* The first of the candidates with the greatest score
BestCandidate(title, author, existing) ==
    Only({CHOOSE i \in cs :
              \A k \in cs : \/ FGt(ScoreOfPage(title, author, existing, i),
                                    ScoreOfPage(title, author, existing, k))
                            \/ /\ FEq(ScoreOfPage(title, author, existing, i),
                                      ScoreOfPage(title, author, existing, k))
                               /\ i <= k
          : cs \in {DuplicateCandidates(title, author, existing)}})

\* C23: _find_duplicate_by_metadata returns the landing page of the
\* candidate whose combined score is at least 85 and greatest over the
\* existing landing pages, the first met winning ties, and none when no
\* candidate reaches 85.
C23_BestCandidateReturned ==
    (call.fn = "_find_duplicate_by_metadata" /\ ret.called)
    => IF DuplicateCandidates(call.args[1], call.args[2], call.args[3]) = {}
       THEN ~ret.value.found
       ELSE /\ ret.value.found
            /\ ret.value.stem
                 = call.args[3][BestCandidate(call.args[1], call.args[2], call.args[3])].stem

\* "<stem> (<n>)<ext>" in originals, for the name a file arrives under
Numbered(name, n) == <<OriginalsDir, Stem(name) \o " (" \o IntToStr(n) \o ")" \o Suffix(name)>>

\* The hash move_to_originals gets for a path
HashAt(st, path) == _calculate_file_hash(st, path).hash

\* The calls of move_to_originals that find the destination name taken by
\* a file or directory of another hash
TakenByOther ==
    /\ call.fn = "move_to_originals"
    /\ call.args[2] \in DOMAIN call.args[1].disk
    /\ <<OriginalsDir, call.args[2][2]>> \in DOMAIN call.args[1].disk
    /\ HashAt(call.args[1], call.args[2])
          # HashAt(call.args[1], <<OriginalsDir, call.args[2][2]>>)

-----------------------------------------------------------------------------
(* Specifications                                                          *)

IdleMatch ==
    /\ mQuery = <<"", "">>
    /\ mResult = NotRun
    /\ bResult = NotRun

IdleMerge ==
    /\ meta = <<>>
    /\ hasAnnotationDir = TRUE
    /\ books = <<>>
    /\ annots = <<>>
    /\ annotated = {}
    /\ prevBooks = <<>>
    /\ last = NoStep

IdleSync ==
    /\ mdFile = NoFile
    /\ syncLanding = NoFile
    /\ idCount = 0
    /\ syncs = 0

IdleBucket ==
    /\ disk = <<>>
    /\ file_hashes = <<>>
    /\ bucketRun = [runs |-> 0, before |-> <<>>, results |-> <<>>]

IdleCall ==
    /\ call = NoCall
    /\ ret = NotCalled

IdleRun ==
    /\ hasBooksDir = TRUE
    /\ world = NoWorld
    /\ pbRun = NoProcessBooksRun
    /\ syncRun = NoSyncRun
    /\ markdowns = <<>>

IdleLinks == matchRun = NoMatchRun

InitSpecMatch ==
    InitMatch /\ IdleMerge /\ IdleSync /\ IdleBucket /\ IdleCall /\ IdleRun /\ IdleLinks
SpecMatch == InitSpecMatch /\ [][NextMatch]_vars

InitSpecMerge ==
    InitMerge /\ IdleMatch /\ mPool \in MergePools /\ IdleSync /\ IdleBucket /\ IdleCall /\ IdleRun
    /\ IdleLinks
SpecMerge == InitSpecMerge /\ [][NextMerge]_vars

InitSpecSync ==
    InitSync /\ IdleMatch /\ mPool = <<>> /\ IdleMerge /\ IdleBucket /\ IdleCall /\ IdleRun
    /\ IdleLinks
SpecSync == InitSpecSync /\ [][NextSync]_vars

InitSpecBucket ==
    InitBucket /\ IdleMatch /\ mPool = <<>> /\ IdleMerge /\ IdleSync /\ IdleCall /\ IdleRun
    /\ IdleLinks
SpecBucket == InitSpecBucket /\ [][NextBucket]_vars

InitSpecCall ==
    InitCall /\ IdleMatch /\ mPool = <<>> /\ IdleMerge /\ IdleSync /\ IdleBucket /\ IdleRun
    /\ IdleLinks
SpecCall == InitSpecCall /\ [][NextCall]_vars

InitSpecRun ==
    /\ InitRun
    /\ IdleMatch
    /\ meta = <<>>
    /\ annotated = {}
    /\ prevBooks = <<>>
    /\ last = NoStep
    /\ IdleSync
    /\ IdleCall
    /\ IdleLinks
SpecRun == InitSpecRun /\ [][NextRun]_vars

\* Runs and syncs, on the vaults of InitRun with at most one file in the
\* bucket
InitSpecVault ==
    InitSpecRun /\ Cardinality(NamesIn(disk, BucketDir)) <= 1

SpecVault == InitSpecVault /\ [][NextVault]_vars

InitSpecLinks ==
    /\ InitLinks
    /\ IdleMatch
    /\ meta = <<>>
    /\ annots = <<>>
    /\ annotated = {}
    /\ prevBooks = <<>>
    /\ last = NoStep
    /\ IdleSync
    /\ file_hashes = <<>>
    /\ bucketRun = NoBucketRun
    /\ IdleCall
    /\ world = NoWorld
    /\ pbRun = NoProcessBooksRun
    /\ syncRun = NoSyncRun
    /\ markdowns = <<>>
SpecLinks == InitSpecLinks /\ [][NextLinks]_vars

=============================================================================
